---- MODULE Spec2Model ----
(***************************************************************************)
(* MiniQuest adventure planner: the research cache, the parallel venue     *)
(* research stage, the typo-tolerant venue matcher and the LangGraph       *)
(* workflow of LangGraphCoordinator.                                       *)
(*                                                                         *)
(* Strings are sequences of one-character strings, so that lower(),        *)
(* strip(), split(), the "in" substring test and difflib's ratio are       *)
(* computed, not assumed.                                                  *)
(***************************************************************************)
EXTENDS Integers, Sequences, FiniteSets, TLC

(***************************************************************************)
(* Python str helpers                                                      *)
(***************************************************************************)
UpperChars == <<"A","B","C","D","E","F","G","H","I","J","K","L","M",
                "N","O","P","Q","R","S","T","U","V","W","X","Y","Z">>
LowerChars == <<"a","b","c","d","e","f","g","h","i","j","k","l","m",
                "n","o","p","q","r","s","t","u","v","w","x","y","z">>
Whitespace == {" ", "\t", "\n"}

UpperSet == { UpperChars[i] : i \in 1..Len(UpperChars) }
ToLower == [c \in UpperSet |->
              LowerChars[CHOOSE i \in 1..Len(UpperChars) : UpperChars[i] = c]]

LowerChar(c) == IF c \in UpperSet THEN ToLower[c] ELSE c

\* str.lower()
Lower(s) == [i \in 1..Len(s) |-> LowerChar(s[i])]

RECURSIVE LStrip(_)
LStrip(s) == IF s # <<>> /\ Head(s) \in Whitespace THEN LStrip(Tail(s)) ELSE s

RECURSIVE RStrip(_)
RStrip(s) ==
  IF s # <<>> /\ s[Len(s)] \in Whitespace THEN RStrip(SubSeq(s, 1, Len(s) - 1)) ELSE s

\* str.strip()
Strip(s) == RStrip(LStrip(s))

\* venue_name.lower().strip()
LowerStrip(s) == Strip(Lower(s))

\* the Python test  x in y  on strings
IsSubstring(x, y) ==
  \E i \in 0..(Len(y) - Len(x)) : SubSeq(y, i + 1, i + Len(x)) = x

\* str.split() as the set of its words: the maximal runs of non-whitespace
SplitWords(s) ==
  { SubSeq(s, i, j) : <<i, j>> \in
      { p \in (1..Len(s)) \X (1..Len(s)) :
          /\ p[1] <= p[2]
          /\ \A k \in p[1]..p[2] : s[k] \notin Whitespace
          /\ (p[1] = 1 \/ s[p[1] - 1] \in Whitespace)
          /\ (p[2] = Len(s) \/ s[p[2] + 1] \in Whitespace) } }

(***************************************************************************)
(* Bounds of the model                                                     *)
(***************************************************************************)
MaxSize == 2      \* ResearchCache.max_size of the modelled cache
TtlTicks == 1     \* ResearchCache.ttl, in clock ticks
MaxTime == 2      \* the clock stops advancing here
MaxOps == 3       \* cache calls per behaviour of SpecCache

None == <<>>
Some(x) == <<x>>

VARIABLES
  cache,          \* ResearchCache.cache, in dict (insertion) order
  hits, misses,   \* ResearchCache.hits / misses
  now,            \* datetime.now()
  lastOp,         \* history: the last cache call and what it returned
  nops,           \* history: number of cache calls made
  gets,           \* history: number of get calls since construction or the last clear
  live            \* history: the payloads set and not since evicted, expired or cleared

VARIABLES
  venues_used,    \* the mentions given to the matcher
  locations,      \* the names of the enhanced locations given to the matcher
  mpos,           \* number of mentions the outer loop has processed
  used_indices,   \* used_indices of the matcher
  matched,        \* matched of the matcher, as indices into locations
  diag            \* history: per mention, what the scan decided

VARIABLES
  phase,          \* TavilyResearchAgent.process: "idle", "running" or "done"
  venues,         \* input_data["venues"]
  max_venues,     \* input_data["max_venues"]
  in_location,    \* input_data["location"]
  research_tasks, \* one record per coroutine handed to asyncio.gather
  overtook,       \* history: some task finished before an earlier one
  response,       \* what process returned
  past_calls      \* history: the finished calls of process, oldest first

VARIABLES
  rag_system,     \* whether the coordinator was built with a RAG system
  node,           \* the node the workflow is about to run, "idle", "END" or "returned"
  state,          \* the AdventureState of the run
  timing_data,    \* the keys of LangGraphCoordinator.timing_data
  returned,       \* what generate_adventures returned
  invoked,        \* history: the nodes run, in order
  intent_result,  \* history: what IntentParserAgent.process returned
  route,          \* history: what _should_continue_after_intent returned
  failed_stages,  \* history: the nodes whose collaborator failed or raised
  flow_callback,  \* LangGraphCoordinator.progress_callback during the run
  emitted,        \* history: the updates handed to _emit_progress, in order
  callback_error, \* what became of the exception of the last callback call
  router_error,   \* state["error"] as _should_continue_after_intent left it in its dict
  ainvoke_error,  \* whether workflow.ainvoke raised
  reference_run   \* history: the state, position and result the run has when no update fails

VARIABLES
  url_call,       \* the arguments of a call of _build_complete_google_maps_url
  url_result,     \* what the call returned
  url_truncated   \* whether the call logged the truncation warning

VARIABLES
  self_progress_callback, \* LangGraphCoordinator.progress_callback of the shared coordinator
  self_timing_data,       \* LangGraphCoordinator.timing_data: per stage, the request that timed it
  requests,               \* per concurrent request: its position, callback and returned metadata
  delivered               \* history: the progress events emitted, with the callback that got them

VARIABLES
  route_adventures,           \* the adventures list being routed (mutated in place)
  route_input,                \* history: the adventures list as it was given
  all_enhanced_locations,     \* the enhanced locations given to the routing stage
  route_user_address,         \* user_address given to the routing stage
  route_target_location,      \* target_location given to the routing stage
  route_optimization_enabled, \* LangGraphCoordinator.route_optimization_enabled
  route_idx,                  \* number of adventures the routing loop has processed
  route_pending,              \* the names and matched stops of the round under way
  route_log                   \* history: per adventure, what the loop round did

VARIABLES
  generation_task, \* the background task of the streaming endpoint: "none", "running" or how it ended
  progress_log,    \* progress_log of generate_sse_stream: the updates the callback got, in order
  put_tasks,       \* the progress_queue.put tasks created and not yet run
  progress_queue,  \* the asyncio.Queue of generate_sse_stream
  sse_stream,      \* history: what the generator yielded (heartbeats left out), in order
  stream_pc        \* where generate_sse_stream is

cacheVars == <<cache, hits, misses, now, lastOp, nops, gets, live>>
reqVars == <<self_progress_callback, self_timing_data, requests, delivered>>
advVars == <<route_adventures, route_input, all_enhanced_locations, route_user_address, route_target_location,
             route_optimization_enabled, route_idx, route_pending, route_log>>
routeVars == <<url_call, url_result, url_truncated>>
flowVars == <<rag_system, node, state, timing_data, returned, invoked, intent_result,
              route, failed_stages, flow_callback, emitted, callback_error, router_error,
              ainvoke_error, reference_run>>
matchVars == <<venues_used, locations, mpos, used_indices, matched, diag>>
enrichVars == <<phase, venues, max_venues, in_location, research_tasks, overtook, response,
                past_calls>>
sseVars == <<generation_task, progress_log, put_tasks, progress_queue, sse_stream, stream_pc>>
vars == <<cacheVars, matchVars, enrichVars, flowVars, routeVars, reqVars, advVars, sseVars>>

(***************************************************************************)
(* ResearchCache                                                           *)
(***************************************************************************)
\* ResearchCache._make_key without the lower-casing
MakeKeyNoLower(venue_name, location) ==
  Strip(venue_name) \o <<"|">> \o Strip(location)

\* hashlib.md5 is taken as injective on the combined string
MakeKey(venue_name, location) ==
  LowerStrip(venue_name) \o <<"|">> \o LowerStrip(location)

\* a membership test that never finds the key
HasKeyNever(c, key) == FALSE

\* key in self.cache
HasKey(c, key) == \E i \in 1..Len(c) : c[i].key = key
IndexOf(c, key) == CHOOSE i \in 1..Len(c) : c[i].key = key
DelAt(c, i) == SubSeq(c, 1, i - 1) \o SubSeq(c, i + 1, Len(c))

\* a get that does not look at expires_at
CacheGetIgnoresExpiry(c, venue_name, location, t) ==
  LET key == MakeKey(venue_name, location) IN
  IF ~HasKey(c, key)
  THEN [cache |-> c, hit |-> FALSE, value |-> None]
  ELSE [cache |-> c, hit |-> TRUE, value |-> Some(c[IndexOf(c, key)].data)]

\* ResearchCache.get: the cache left behind, hit or miss, and the value returned
CacheGet(c, venue_name, location, t) ==
  LET key == MakeKey(venue_name, location) IN
  IF ~HasKey(c, key)
  THEN [cache |-> c, hit |-> FALSE, value |-> None]
  ELSE LET i == IndexOf(c, key) IN
       IF t > c[i].expires_at
       THEN [cache |-> DelAt(c, i), hit |-> FALSE, value |-> None]
       ELSE [cache |-> c, hit |-> TRUE, value |-> Some(c[i].data)]

\* min(self.cache.keys(), key=created_at): the first minimum in dict order
OldestIndex(c) ==
  CHOOSE i \in 1..Len(c) :
    /\ \A j \in 1..Len(c) : c[i].created_at <= c[j].created_at
    /\ \A j \in 1..(i - 1) : c[j].created_at > c[i].created_at

\* an eviction test that is off by one
AtCapacityLate(c) == Len(c) > MaxSize

\* len(self.cache) >= self.max_size
AtCapacity(c) == Len(c) >= MaxSize

\* ResearchCache.set
CacheSet(c, venue_name, location, data, t) ==
  LET c1 == IF AtCapacity(c) THEN DelAt(c, OldestIndex(c)) ELSE c
      key == MakeKey(venue_name, location)
      entry == [key |-> key, data |-> data, venue_name |-> venue_name,
                created_at |-> t, expires_at |-> t + TtlTicks]
  IN IF HasKey(c1, key)
     THEN [c1 EXCEPT ![IndexOf(c1, key)] = entry]
     ELSE Append(c1, entry)

\* ResearchCache.cleanup_expired
CleanupExpired(c, t) == SelectSeq(c, LAMBDA e : ~(t > e.expires_at))

(***************************************************************************)
(* Inputs of the cache calls                                               *)
(***************************************************************************)
VenueNames == { <<"M","i","T">>, <<" ","m","i","t">>, <<"z","o","o">> }
Locations == { <<"B","o","s"," ">>, <<"n","y","c">> }
Payloads == { [research_status |-> "excellent", total_insights |-> 2],
              [research_status |-> "partial", total_insights |-> 1] }

NoOp == [op |-> "none", venue_name |-> <<>>, location |-> <<>>, hit |-> FALSE,
         value |-> None, size_before |-> 0]

CacheStart ==
  /\ cache = <<>>
  /\ hits = 0
  /\ misses = 0
  /\ now = 0
  /\ lastOp = NoOp
  /\ nops = 0
  /\ gets = 0
  /\ live = {}

Keys(c) == { c[i].key : i \in 1..Len(c) }

\* history: forget the payloads whose entry the call removed from the dict
StillLive(c1, c2) == { g \in live : ~(g.key \in Keys(c1) /\ g.key \notin Keys(c2)) }

\* a call of ResearchCache.get
Get(venue_name, location) ==
  LET r == CacheGet(cache, venue_name, location, now) IN
  /\ nops < MaxOps
  /\ cache' = r.cache
  /\ hits' = IF r.hit THEN hits + 1 ELSE hits
  /\ misses' = IF r.hit THEN misses ELSE misses + 1
  /\ gets' = gets + 1
  /\ lastOp' = [op |-> "get", venue_name |-> venue_name, location |-> location,
                hit |-> r.hit, value |-> r.value, size_before |-> Len(cache)]
  /\ nops' = nops + 1
  /\ live' = StillLive(cache, r.cache)
  /\ UNCHANGED <<now, matchVars, enrichVars, flowVars, routeVars, reqVars, advVars, sseVars>>

\* a call of ResearchCache.set
Set(venue_name, location, data) ==
  LET c2 == CacheSet(cache, venue_name, location, data, now)
      g == [name |-> LowerStrip(venue_name), location |-> LowerStrip(location),
            key |-> MakeKey(venue_name, location), data |-> data, at |-> now]
  IN
  /\ nops < MaxOps
  /\ cache' = c2
  /\ lastOp' = [op |-> "set", venue_name |-> venue_name, location |-> location,
                hit |-> FALSE, value |-> None, size_before |-> Len(cache)]
  /\ nops' = nops + 1
  /\ live' = { h \in StillLive(cache, c2) :
                 h.key # g.key /\ <<h.name, h.location>> # <<g.name, g.location>> }
             \cup {g}
  /\ UNCHANGED <<hits, misses, gets, now, matchVars, enrichVars, flowVars, routeVars, reqVars, advVars, sseVars>>

\* a call of ResearchCache.clear
Clear ==
  /\ nops < MaxOps
  /\ cache' = <<>>
  /\ hits' = 0
  /\ misses' = 0
  /\ gets' = 0
  /\ lastOp' = [NoOp EXCEPT !.op = "clear", !.size_before = Len(cache)]
  /\ nops' = nops + 1
  /\ live' = {}
  /\ UNCHANGED <<now, matchVars, enrichVars, flowVars, routeVars, reqVars, advVars, sseVars>>

\* a call of ResearchCache.cleanup_expired
Cleanup ==
  /\ nops < MaxOps
  /\ cache' = CleanupExpired(cache, now)
  /\ lastOp' = [NoOp EXCEPT !.op = "cleanup", !.size_before = Len(cache)]
  /\ nops' = nops + 1
  /\ live' = StillLive(cache, cache')
  /\ UNCHANGED <<hits, misses, gets, now, matchVars, enrichVars, flowVars, routeVars, reqVars, advVars, sseVars>>

\* the wall clock advances between calls
Tick ==
  /\ now < MaxTime
  /\ now' = now + 1
  /\ UNCHANGED <<cache, hits, misses, gets, lastOp, nops, live, matchVars, enrichVars, flowVars, routeVars, reqVars, advVars, sseVars>>

CacheNext ==
  \/ \E n \in VenueNames, l \in Locations : Get(n, l)
  \/ \E n \in VenueNames, l \in Locations, d \in Payloads : Set(n, l, d)
  \/ Clear
  \/ Cleanup
  \/ Tick

MatchIdle ==
  /\ venues_used = <<>>
  /\ locations = <<>>
  /\ mpos = 0
  /\ used_indices = {}
  /\ matched = <<>>
  /\ diag = <<>>

EnrichIdle ==
  /\ phase = "idle"
  /\ venues = <<>>
  /\ max_venues = 0
  /\ in_location = <<>>
  /\ research_tasks = <<>>
  /\ overtook = FALSE
  /\ response = None
  /\ past_calls = <<>>

FlowIdle ==
  /\ rag_system = FALSE
  /\ node = "idle"
  /\ state = None
  /\ timing_data = {}
  /\ returned = None
  /\ invoked = <<>>
  /\ intent_result = None
  /\ route = "none"
  /\ failed_stages = {}
  /\ flow_callback = "none"
  /\ emitted = <<>>
  /\ callback_error = "none"
  /\ router_error = None
  /\ ainvoke_error = FALSE
  /\ reference_run = [state |-> None, node |-> "idle", returned |-> None]

RouteIdle ==
  /\ url_call = None
  /\ url_result = None
  /\ url_truncated = FALSE

ReqIdle ==
  /\ self_progress_callback = None
  /\ self_timing_data = <<>>
  /\ requests = <<>>
  /\ delivered = {}

AdvIdle ==
  /\ route_adventures = <<>>
  /\ route_input = <<>>
  /\ all_enhanced_locations = <<>>
  /\ route_user_address = None
  /\ route_target_location = None
  /\ route_optimization_enabled = FALSE
  /\ route_idx = 0
  /\ route_pending = None
  /\ route_log = <<>>

SseIdle ==
  /\ generation_task = "none"
  /\ progress_log = <<>>
  /\ put_tasks = <<>>
  /\ progress_queue = <<>>
  /\ sse_stream = <<>>
  /\ stream_pc = "idle"

CacheInit == CacheStart /\ MatchIdle /\ EnrichIdle /\ FlowIdle /\ RouteIdle /\ ReqIdle /\ AdvIdle /\ SseIdle

SpecCache == CacheInit /\ [][CacheNext]_vars

(***************************************************************************)
(* Claims about ResearchCache                                              *)
(***************************************************************************)
IsCall(op) == nops' = nops + 1 /\ lastOp'.op = op

\* the entries of c other than the one stored under key
Others(c, key) == { c[i] : i \in { k \in 1..Len(c) : c[k].key # key } }

EvictsOldest ==
  (IsCall("set") /\ Len(cache) = MaxSize) =>
    LET key == MakeKey(lastOp'.venue_name, lastOp'.location) IN
    \E i \in 1..Len(cache) :
      /\ \A j \in 1..Len(cache) : cache[i].created_at <= cache[j].created_at
      /\ Keys(cache') = (Keys(cache) \ {cache[i].key}) \cup {key}
      /\ Others(cache', key) = Others(DelAt(cache, i), key)

\* C3: whatever get, set, clear and cleanup_expired calls are made, the cache
\* never holds more than max_size entries, and a set made while it holds
\* max_size entries removes exactly one entry, one with the smallest
\* created_at, and then stores the new one.
C3_NeverExceedsMaxSize == [][Len(cache') <= MaxSize /\ EvictsOldest]_vars

\* a set was made at capacity under a key the cache did not hold
C3_Witness ==
  /\ lastOp.op = "set"
  /\ lastOp.size_before = MaxSize
  /\ Len(cache) = MaxSize
  /\ cache[Len(cache)].key = MakeKey(lastOp.venue_name, lastOp.location)
  /\ cache[1].created_at > 0

GetAfterSet ==
  IsCall("get") =>
    \A g \in live :
      (/\ g.name = LowerStrip(lastOp'.venue_name)
       /\ g.location = LowerStrip(lastOp'.location)) =>
        IF now <= g.at + TtlTicks
        THEN /\ lastOp'.hit
             /\ lastOp'.value = Some(g.data)
        ELSE /\ ~lastOp'.hit
             /\ lastOp'.value = None
             /\ g.key \notin Keys(cache')

\* C4: a get under a (name, location) pair equal, after lower-casing and
\* trimming, to the pair of an earlier set returns the payload of that set as
\* long as the entry was not evicted or cleared and no more than the TTL has
\* passed since the set; the first get after that returns a miss and removes
\* the entry.
C4_GetAfterSetUntilTtl == [][GetAfterSet]_vars

\* after a hit, a later get found the entry expired and purged it
C4_Witness ==
  /\ lastOp.op = "get"
  /\ ~lastOp.hit
  /\ Len(cache) < lastOp.size_before
  /\ hits > 0

(***************************************************************************)
(* difflib.SequenceMatcher(None, a, b).ratio(), for strings shorter than   *)
(* 200 characters (no autojunk), as the exact fraction <<2M, len a + len b>>*)
(***************************************************************************)
\* scores are exact fractions <<numerator, denominator>>
Ge(x, y) == x[1] * y[2] >= y[1] * x[2]
Gt(x, y) == x[1] * y[2] > y[1] * x[2]
Zero == <<0, 1>>

\* length of the common run of a from i and b from j, inside a[..ahi], b[..bhi]
RECURSIVE RunLen(_, _, _, _, _, _)
RunLen(a, b, i, j, ahi, bhi) ==
  IF i > ahi \/ j > bhi THEN 0
  ELSE IF a[i] # b[j] THEN 0
  ELSE 1 + RunLen(a, b, i + 1, j + 1, ahi, bhi)

\* find_longest_match: the longest block, the earliest in a, then the earliest in b
FindLongestMatch(a, b, alo, ahi, blo, bhi) ==
  LET pairs == (alo..ahi) \X (blo..bhi)
      run == [p \in pairs |-> RunLen(a, b, p[1], p[2], ahi, bhi)]
      best == CHOOSE p \in pairs :
                /\ \A q \in pairs : run[q] <= run[p]
                /\ \A q \in pairs :
                     run[q] = run[p] =>
                       (p[1] < q[1] \/ (p[1] = q[1] /\ p[2] <= q[2]))
  IN <<best[1], best[2], run[best]>>

\* get_matching_blocks: the total size of the matching blocks
RECURSIVE MatchingSize(_, _, _, _, _, _)
MatchingSize(a, b, alo, ahi, blo, bhi) ==
  IF alo > ahi \/ blo > bhi THEN 0
  ELSE LET m == FindLongestMatch(a, b, alo, ahi, blo, bhi) IN
       IF m[3] = 0 THEN 0
       ELSE m[3]
            + MatchingSize(a, b, alo, m[1] - 1, blo, m[2] - 1)
            + MatchingSize(a, b, m[1] + m[3], ahi, m[2] + m[3], bhi)

Ratio(a, b) ==
  IF Len(a) + Len(b) = 0 THEN <<1, 1>>
  ELSE <<2 * MatchingSize(a, b, 1, Len(a), 1, Len(b)), Len(a) + Len(b)>>

Abs(x) == IF x < 0 THEN -x ELSE x

(***************************************************************************)
(* LangGraphCoordinator: typo-tolerant venue matching                      *)
(***************************************************************************)
LengthGate == 5
SubstringScore == <<9, 10>>
TypoThreshold == <<85, 100>>
OverlapThreshold == <<1, 2>>
AcceptThreshold == <<1, 2>>

\* a similarity that never rejects on the lengths
SimilarityNoGate(str1, str2) == Ratio(str1, str2)

\* _calculate_string_similarity
CalculateStringSimilarity(str1, str2) ==
  IF Abs(Len(str1) - Len(str2)) > LengthGate THEN Zero ELSE Ratio(str1, str2)

\* a containment test in one direction only
ContainsOneWay(venue_lower, loc_name) == IsSubstring(venue_lower, loc_name)

\* venue_lower in loc_name or loc_name in venue_lower
Contains(venue_lower, loc_name) ==
  IsSubstring(venue_lower, loc_name) \/ IsSubstring(loc_name, venue_lower)

\* a scan that forgets which locations are taken
IsUsedNever(used, idx) == FALSE

\* idx in used_indices
IsUsed(used, idx) == idx \in used

\* overlap / total_words of the two word sets
WordOverlapOfMention(venue_words, loc_words) ==
  IF Cardinality(venue_words \cup loc_words) > 0
  THEN <<Cardinality(venue_words \cap loc_words), Cardinality(venue_words)>>
  ELSE Zero

WordOverlap(venue_words, loc_words) ==
  IF Cardinality(venue_words \cup loc_words) > 0
  THEN <<Cardinality(venue_words \cap loc_words), Cardinality(venue_words \cup loc_words)>>
  ELSE Zero

NoBest == [idx |-> 0, score |-> Zero, type |-> "none"]

\* the inner loop over the locations, from index idx on, with the best so far
RECURSIVE ScanLocations(_, _, _, _, _)
ScanLocations(venue_lower, locs, used, idx, best) ==
  IF idx > Len(locs) THEN best
  ELSE IF IsUsed(used, idx) THEN ScanLocations(venue_lower, locs, used, idx + 1, best)
  ELSE
    LET loc_name == LowerStrip(locs[idx])
        venue_words == SplitWords(venue_lower)
        loc_words == SplitWords(loc_name)
        char_similarity == CalculateStringSimilarity(venue_lower, loc_name)
        score == WordOverlap(venue_words, loc_words)
    IN
    IF venue_lower = loc_name
    THEN [idx |-> idx, score |-> <<1, 1>>, type |-> "exact"]
    ELSE IF Contains(venue_lower, loc_name)
    THEN ScanLocations(venue_lower, locs, used, idx + 1,
           IF Gt(SubstringScore, best.score)
           THEN [idx |-> idx, score |-> SubstringScore, type |-> "substring"]
           ELSE best)
    ELSE IF Ge(char_similarity, TypoThreshold) /\ Gt(char_similarity, best.score)
    THEN ScanLocations(venue_lower, locs, used, idx + 1,
           [idx |-> idx, score |-> char_similarity, type |-> "typo_tolerant"])
    ELSE IF /\ venue_words # {} /\ loc_words # {}
            /\ Ge(score, OverlapThreshold) /\ Gt(score, best.score)
    THEN ScanLocations(venue_lower, locs, used, idx + 1,
           [idx |-> idx, score |-> score, type |-> "word_overlap"])
    ELSE ScanLocations(venue_lower, locs, used, idx + 1, best)

\* if best_match and best_score >= 0.5
Accepted(best) == best.idx # 0 /\ Ge(best.score, AcceptThreshold)

(***************************************************************************)
(* Inputs of the matcher                                                   *)
(***************************************************************************)
MaxMentions == 2
MaxLocations == 2

MentionMFA == <<"M","u","s","e","u","m"," ","o","f"," ","F","i","n","e"," ","A","r","t","s">>
MentionTypo == <<"M","u","s","u","e","m"," ","o","f"," ","F","i","n","e"," ","A","r","t","s">>
MentionRandom == <<"R","a","n","d","o","m"," ","U","n","r","e","l","a","t","e","d"," ","P","l","a","c","e">>
LocMFA == <<"M","u","s","e","u","m"," ","o","f"," ","F","i","n","e"," ","A","r","t","s",","," ","B","o","s","t","o","n">>
LocMIT == <<"M","I","T"," ","M","u","s","e","u","m">>

Scenarios ==
  { [venues_used |-> <<m>>, locations |-> <<LocMFA, LocMIT>>] :
      m \in {MentionMFA, MentionTypo, MentionRandom} }

MentionPool == { <<"A","b","c"," ","D","e","f"," ">>,
                 <<"a","b","c"," "," ","d","e","f">>,
                 <<"d","e","f"," ","a","b","c">>,
                 <<"a","b","c">> }
LocationPool == { <<"a","b","c"," ","d","e","f">>,
                  <<"a","b","c"," "," ","d","x","e","f">>,
                  <<"A","B","C">>,
                  <<"x","y","z">> }

SeqsUpTo(S, lo, hi) == UNION { [1..n -> S] : n \in lo..hi }

MatchStart ==
  /\ \/ \E sc \in Scenarios :
          venues_used = sc.venues_used /\ locations = sc.locations
     \/ /\ venues_used \in SeqsUpTo(MentionPool, 1, MaxMentions)
        /\ locations \in SeqsUpTo(LocationPool, 0, MaxLocations)
  /\ mpos = 0
  /\ used_indices = {}
  /\ matched = <<>>
  /\ diag = <<>>

\* one round of the loop  for venue_name in venues_used
MatchStep ==
  /\ mpos < Len(venues_used)
  /\ LET venue_lower == LowerStrip(venues_used[mpos + 1])
         best == ScanLocations(venue_lower, locations, used_indices, 1, NoBest)
     IN /\ mpos' = mpos + 1
        /\ matched' = IF Accepted(best) THEN Append(matched, best.idx) ELSE matched
        /\ used_indices' = IF Accepted(best) THEN used_indices \cup {best.idx}
                           ELSE used_indices
        /\ diag' = Append(diag, [mention |-> mpos + 1, used_before |-> used_indices,
                                 accepted |-> Accepted(best), idx |-> best.idx,
                                 score |-> best.score, type |-> best.type])
  /\ UNCHANGED <<venues_used, locations, cacheVars, enrichVars, flowVars, routeVars, reqVars, advVars, sseVars>>

MatchNext == MatchStep

MatchInit == MatchStart /\ CacheStart /\ EnrichIdle /\ FlowIdle /\ RouteIdle /\ ReqIdle /\ AdvIdle /\ SseIdle

SpecMatch == MatchInit /\ [][MatchNext]_vars

(***************************************************************************)
(* Claims about the matcher                                                *)
(***************************************************************************)
Min(x, y) == IF x <= y THEN x ELSE y

\* the location indices of the accepted mentions, in mention order
RECURSIVE AcceptedIndices(_)
AcceptedIndices(d) ==
  IF d = <<>> THEN <<>>
  ELSE IF Head(d).accepted THEN <<Head(d).idx>> \o AcceptedIndices(Tail(d))
  ELSE AcceptedIndices(Tail(d))

\* C7: in one matching pass no location index is matched twice, the result
\* has at most min(number of mentions, number of locations) entries, and the
\* entries stand in the order of the mentions that matched them.
C7_OneLocationPerMention ==
  /\ \A i, j \in 1..Len(matched) : i # j => matched[i] # matched[j]
  /\ \A i \in 1..Len(matched) : matched[i] \in 1..Len(locations)
  /\ Len(matched) <= Min(mpos, Len(locations))
  /\ matched = AcceptedIndices(diag)

\* the second mention contains the name of the location the first one took
C7_Witness ==
  /\ mpos = 2
  /\ diag[1].accepted
  /\ diag[2].used_before = {diag[1].idx}
  /\ ~diag[2].accepted
  /\ IsSubstring(LowerStrip(locations[diag[1].idx]), LowerStrip(venues_used[2]))

MentionOf(d) == LowerStrip(venues_used[d.mention])
Unused(d) == { i \in 1..Len(locations) : i \notin d.used_before }

\* C8: the mention "Musuem of Fine Arts" against ["Museum of Fine Arts,
\* Boston", "MIT Museum"] is matched to the first location at tier
\* typo-tolerant with a score of at least 0.85.
C8_TypoExampleMatches ==
  (venues_used = <<MentionTypo>> /\ locations = <<LocMFA, LocMIT>> /\ mpos = 1) =>
    /\ diag[1].accepted
    /\ diag[1].idx = 1
    /\ diag[1].type = "typo_tolerant"
    /\ Ge(diag[1].score, <<85, 100>>)

\* C9: a mention that is contained in, or contains, the lower-cased trimmed
\* name of an unused location, and equals no unused location exactly, is
\* matched with a score of at least 0.9; "Museum of Fine Arts" against
\* ["Museum of Fine Arts, Boston", "MIT Museum"] matches the first location
\* at tier substring with score 0.9.
C9_SubstringScoresAtLeastNineTenths ==
  /\ \A k \in 1..Len(diag) :
       LET d == diag[k]
           names == [i \in Unused(d) |-> LowerStrip(locations[i])]
       IN (/\ \E i \in Unused(d) : \/ IsSubstring(MentionOf(d), names[i])
                                   \/ IsSubstring(names[i], MentionOf(d))
           /\ \A i \in Unused(d) : MentionOf(d) # names[i])
          => (d.accepted /\ Ge(d.score, <<9, 10>>))
  /\ (venues_used = <<MentionMFA>> /\ locations = <<LocMFA, LocMIT>> /\ mpos = 1) =>
       diag[1] = [mention |-> 1, used_before |-> {}, accepted |-> TRUE, idx |-> 1,
                  score |-> <<9, 10>>, type |-> "substring"]

\* the mention contains the name of the location it was matched to
C9_Witness ==
  /\ mpos >= 1
  /\ diag[1].accepted
  /\ diag[1].type = "substring"
  /\ Len(MentionOf(diag[1])) > Len(LowerStrip(locations[diag[1].idx]))

\* the score of one candidate by the tier rules: the first tier that applies
TieredScore(venue_lower, loc_name) ==
  IF venue_lower = loc_name THEN <<1, 1>>
  ELSE IF IsSubstring(venue_lower, loc_name) \/ IsSubstring(loc_name, venue_lower)
  THEN <<9, 10>>
  ELSE IF /\ Abs(Len(venue_lower) - Len(loc_name)) <= 5
          /\ Ge(Ratio(venue_lower, loc_name), <<85, 100>>)
  THEN Ratio(venue_lower, loc_name)
  ELSE IF /\ SplitWords(venue_lower) # {} /\ SplitWords(loc_name) # {}
          /\ Ge(WordOverlap(SplitWords(venue_lower), SplitWords(loc_name)), <<1, 2>>)
  THEN WordOverlap(SplitWords(venue_lower), SplitWords(loc_name))
  ELSE Zero

\* C10: the accepted candidate of a mention has a tiered score that is at
\* least the tiered score of every other unused candidate and at least 0.5,
\* and it is an exactly equal candidate whenever an unused one exists.
C10_AcceptedHasBestTieredScore ==
  \A k \in 1..Len(diag) :
    LET d == diag[k]
        names == [i \in Unused(d) |-> LowerStrip(locations[i])]
    IN /\ d.accepted =>
            /\ \A i \in Unused(d) :
                 Ge(TieredScore(MentionOf(d), names[d.idx]), TieredScore(MentionOf(d), names[i]))
            /\ Ge(TieredScore(MentionOf(d), names[d.idx]), <<1, 2>>)
       /\ (\E i \in Unused(d) : MentionOf(d) = names[i]) =>
            (d.accepted /\ MentionOf(d) = names[d.idx])

(***************************************************************************)
(* TavilyResearchAgent: parallel, cached venue research                    *)
(***************************************************************************)
MaxTasks == 3          \* longest input list of venues
SmallMaxVenues == 2    \* a max_venues below MaxTasks, so that the list is cut
DefaultMaxVenues == 4  \* input_data.get("max_venues", 4)

\* BaseAgent.create_response, for a non-empty data
CreateResponse(success, data) == [success |-> success, data |-> data]

\* confidences are kept in hundredths
CreateFallbackProfile(venue) ==
  [name |-> venue.name, research_status |-> "failed", research_confidence |-> 20,
   total_insights |-> 0]

\* research is the list of the methods of the collected items
BuildVenueProfile(venue, research, extracted_count) ==
  IF research = <<>> THEN CreateFallbackProfile(venue)
  ELSE LET has_extract == extracted_count > 0
           has_snippets == \E k \in 1..Len(research) : research[k] = "search_snippet"
           confidence == IF has_extract THEN 100 ELSE IF has_snippets THEN 90 ELSE 50
           status == IF confidence > 85 THEN "excellent"
                     ELSE IF confidence > 60 THEN "good" ELSE "partial"
       IN [name |-> venue.name, research_status |-> status,
           research_confidence |-> confidence, total_insights |-> Len(research)]

SelectAllVenues(vs, mv) == vs

SelectBalancedVenues(vs, mv) == IF Len(vs) > mv THEN SubSeq(vs, 1, mv) ELSE vs

IsNeverSuccessful(profile) == FALSE

IsAlwaysSuccessful(profile) == TRUE

IsSuccessful(profile) == profile.research_status \notin {"failed", "unknown"}

RECURSIVE SumInsights(_)
SumInsights(profiles) ==
  IF profiles = <<>> THEN 0
  ELSE Head(profiles).total_insights + SumInsights(Tail(profiles))

\* f"{hit_rate:.1f}%": one decimal, ties to even
FormatHitRate(hit_rate_num, hit_rate_den) ==
  LET q == (10 * hit_rate_num) \div hit_rate_den
      r == (10 * hit_rate_num) % hit_rate_den
      tenths == IF 2 * r > hit_rate_den THEN q + 1
                ELSE IF 2 * r = hit_rate_den THEN q + (q % 2)
                ELSE q
  IN ToString(tenths \div 10) \o "." \o ToString(tenths % 10) \o "%"

\* ResearchCache.get_stats
GetStats(c, h, m) ==
  LET total == h + m IN
  [size |-> Len(c), hits |-> h, misses |-> m,
   hit_rate |-> IF total > 0 THEN FormatHitRate(h * 100, total) ELSE FormatHitRate(0, 1),
   time_saved_estimate |-> ToString(h * 2) \o "s"]

\* the statistics of the early return for an empty list
EmptyStats ==
  [total_venues |-> 0, successful_research |-> 0, total_insights |-> 0, cache_hits |-> 0]

ResearchStats(researched_venues, cache_stats) ==
  [total_venues |-> Len(researched_venues),
   successful_research |->
     Cardinality({ i \in 1..Len(researched_venues) : IsSuccessful(researched_venues[i]) }),
   total_insights |-> SumInsights(researched_venues),
   cache_hits |-> cache_stats.hits,
   cache_hit_rate |-> cache_stats.hit_rate]

NewTask(venue) ==
  [venue |-> venue, pc |-> "new", research |-> <<>>, search |-> "none",
   result |-> None]

EnrichVenues == { [name |-> <<"M", "i", "T">>], [name |-> <<"z", "o", "o">>] }
EnrichLocations == { <<"n", "y", "c">> }
SearchOutcomes == {"raise", "empty", "official", "general"}
ExtractOutcomes == {"raise", "empty", "content"}

\* the profile an earlier request left in the cache, under another spelling
EarlierProfile ==
  [name |-> <<" ", "m", "i", "t">>, research_status |-> "excellent",
   research_confidence |-> 100, total_insights |-> 2]

EnrichStart ==
  /\ EnrichIdle
  /\ \/ cache = <<>> /\ misses = 0
     \/ /\ cache = CacheSet(<<>>, EarlierProfile.name, <<"n", "y", "c">>, EarlierProfile, 0)
        /\ misses = 1
  /\ hits = 0
  /\ now = 0
  /\ lastOp = NoOp
  /\ nops = 0
  /\ gets = misses
  /\ live = {}

\* a call of process: validation, the empty case, selection, task creation
ProcessCall(vs, mv, loc) ==
  /\ venues' = vs
  /\ max_venues' = mv
  /\ in_location' = loc
  /\ IF vs = <<>>
     THEN /\ research_tasks' = <<>>
          /\ response' = Some(CreateResponse(TRUE,
                 [researched_venues |-> <<>>, research_stats |-> EmptyStats]))
          /\ past_calls' = Append(past_calls,
                 [response |-> CreateResponse(TRUE,
                    [researched_venues |-> <<>>, research_stats |-> EmptyStats]),
                  cache_stats |-> GetStats(cache, hits, misses),
                  provider_calls |-> 0])
          /\ phase' = "done"
     ELSE /\ research_tasks' = LET selected_venues == SelectBalancedVenues(vs, mv)
                               IN [i \in 1..Len(selected_venues) |-> NewTask(selected_venues[i])]
          /\ response' = None
          /\ past_calls' = past_calls
          /\ phase' = "running"
  /\ UNCHANGED <<overtook, cacheVars, matchVars, flowVars, routeVars, reqVars, advVars, sseVars>>

\* the one call of process in a behaviour of SpecEnrich
Process(vs, mv, loc) == phase = "idle" /\ ProcessCall(vs, mv, loc)

\* the event loop runs every coroutine to its first await before it resumes one
AllStarted == \A j \in DOMAIN research_tasks : research_tasks[j].pc # "new"

Finishes(i) == overtook \/ \E j \in 1..(i - 1) : research_tasks[j].pc # "done"

\* _research_venue_safe up to its first await: the cache lookup.  gather
\* starts the coroutines in list order.
TaskStart(i) ==
  /\ phase = "running"
  /\ i \in DOMAIN research_tasks
  /\ research_tasks[i].pc = "new"
  /\ \A j \in 1..(i - 1) : research_tasks[j].pc # "new"
  /\ LET r == CacheGet(cache, research_tasks[i].venue.name, in_location, now) IN
     /\ cache' = r.cache
     /\ hits' = IF r.hit THEN hits + 1 ELSE hits
     /\ misses' = IF r.hit THEN misses ELSE misses + 1
     /\ gets' = gets + 1
     /\ research_tasks' =
          IF r.hit
          THEN [research_tasks EXCEPT ![i].pc = "done", ![i].search = "cached",
                                      ![i].result = r.value]
          ELSE [research_tasks EXCEPT ![i].pc = "search"]
     /\ overtook' = IF r.hit THEN Finishes(i) ELSE overtook
  /\ UNCHANGED <<phase, venues, max_venues, in_location, response, past_calls,
                 now, lastOp, nops, live, matchVars, flowVars, routeVars, reqVars, advVars, sseVars>>

\* tavily_client.search returns or raises; with nothing to extract the
\* profile is built at once
SearchReturns(i, outcome) ==
  /\ phase = "running"
  /\ i \in DOMAIN research_tasks
  /\ research_tasks[i].pc = "search"
  /\ AllStarted
  /\ LET all_research == IF outcome = "official" THEN <<"official_snippet">>
                         ELSE IF outcome = "general" THEN <<"search_snippet">>
                         ELSE <<>>
         urls_to_extract == all_research # <<>>
     IN IF urls_to_extract
        THEN /\ research_tasks' = [research_tasks EXCEPT ![i].pc = "extract",
                                     ![i].search = outcome, ![i].research = all_research]
             /\ UNCHANGED <<overtook, cache>>
        ELSE LET result == BuildVenueProfile(research_tasks[i].venue, all_research, 0)
             IN /\ research_tasks' = [research_tasks EXCEPT ![i].pc = "done",
                                        ![i].search = outcome, ![i].result = Some(result)]
                /\ cache' = IF IsSuccessful(result)
                            THEN CacheSet(cache, research_tasks[i].venue.name, in_location,
                                          result, now)
                            ELSE cache
                /\ overtook' = Finishes(i)
  /\ UNCHANGED <<phase, venues, max_venues, in_location, response, past_calls,
                 hits, misses, gets, now, lastOp, nops, live, matchVars, flowVars, routeVars, reqVars, advVars, sseVars>>

\* tavily_client.extract returns or raises; the profile is built and cached
ExtractReturns(i, outcome) ==
  /\ phase = "running"
  /\ i \in DOMAIN research_tasks
  /\ research_tasks[i].pc = "extract"
  /\ AllStarted
  /\ LET extracted_content_count == IF outcome = "content" THEN 1 ELSE 0
         all_research == IF outcome = "content"
                         THEN Append(research_tasks[i].research, "extracted_content")
                         ELSE research_tasks[i].research
         result == BuildVenueProfile(research_tasks[i].venue, all_research,
                                     extracted_content_count)
     IN /\ research_tasks' = [research_tasks EXCEPT ![i].pc = "done",
                                ![i].research = all_research,
                                ![i].result = Some(result)]
        /\ cache' = IF IsSuccessful(result)
                    THEN CacheSet(cache, research_tasks[i].venue.name, in_location, result, now)
                    ELSE cache
  /\ overtook' = Finishes(i)
  /\ UNCHANGED <<phase, venues, max_venues, in_location, response, past_calls,
                 hits, misses, gets, now, lastOp, nops, live, matchVars, flowVars, routeVars, reqVars, advVars, sseVars>>

\* the provider call in flight never returns: nothing resumes the coroutine
ProviderHangs(i) ==
  /\ phase = "running"
  /\ i \in DOMAIN research_tasks
  /\ research_tasks[i].pc \in {"search", "extract"}
  /\ AllStarted
  /\ research_tasks' = [research_tasks EXCEPT ![i].pc = "hung"]
  /\ UNCHANGED <<phase, venues, max_venues, in_location, overtook, response, past_calls,
                 cacheVars, matchVars, flowVars, routeVars, reqVars, advVars, sseVars>>

\* asyncio.gather returns the results in the order of the coroutines; the
\* statistics and the response follow
Gather ==
  /\ phase = "running"
  /\ \A i \in DOMAIN research_tasks : research_tasks[i].pc = "done"
  /\ LET researched_venues ==
           [i \in 1..Len(research_tasks) |-> research_tasks[i].result[1]]
         result == CreateResponse(TRUE,
            [researched_venues |-> researched_venues,
             research_stats |-> ResearchStats(researched_venues,
                                              GetStats(cache, hits, misses))])
     IN /\ response' = Some(result)
        /\ past_calls' = Append(past_calls,
              [response |-> result, cache_stats |-> GetStats(cache, hits, misses),
               provider_calls |-> Cardinality({ i \in DOMAIN research_tasks :
                                                 research_tasks[i].search # "cached" })])
  /\ phase' = "done"
  /\ UNCHANGED <<venues, max_venues, in_location, research_tasks, overtook,
                 cacheVars, matchVars, flowVars, routeVars, reqVars, advVars, sseVars>>

EnrichNext ==
  \/ \E vs \in SeqsUpTo(EnrichVenues, 0, MaxTasks), loc \in EnrichLocations,
        mv \in {SmallMaxVenues, DefaultMaxVenues} : Process(vs, mv, loc)
  \/ \E i \in 1..MaxTasks : TaskStart(i)
  \/ \E i \in 1..MaxTasks, outcome \in SearchOutcomes : SearchReturns(i, outcome)
  \/ \E i \in 1..MaxTasks, outcome \in ExtractOutcomes : ExtractReturns(i, outcome)
  \/ \E i \in 1..MaxTasks : ProviderHangs(i)
  \/ Gather

EnrichInit == EnrichStart /\ MatchIdle /\ FlowIdle /\ RouteIdle /\ ReqIdle /\ AdvIdle /\ SseIdle

SpecEnrich == EnrichInit /\ [][EnrichNext]_vars

(***************************************************************************)
(* Claims about the research agent                                         *)
(***************************************************************************)
\* C5: process returns exactly min(len(venues), max_venues) entities; the
\* entity at index i is the result for the input venue at index i, whatever
\* the order in which the tasks finish and whichever provider calls raise:
\* the venues whose search raised (or found nothing) come back with
\* research_status = failed, the others enriched, all in input order.
C5_OneResultPerVenueInInputOrder ==
  response # None =>
    LET out == response[1].data.researched_venues
        stats == response[1].data.research_stats
        n == Min(Len(venues), max_venues)
    IN /\ Len(out) = n
       /\ stats.total_venues = n
       /\ \A i \in 1..n :
            /\ i \in DOMAIN research_tasks
            /\ research_tasks[i].venue = venues[i]
            /\ out[i] = research_tasks[i].result[1]
            /\ LowerStrip(out[i].name) = LowerStrip(venues[i].name)
            /\ (out[i].research_status = "failed")
                 <=> (research_tasks[i].search \in {"raise", "empty"})
            /\ research_tasks[i].search = "cached" => out[i] = EarlierProfile
       /\ stats.successful_research =
            Cardinality({ i \in 1..n : research_tasks[i].search \notin {"raise", "empty"} })

\* a cut list, a later task finishing first, one search raising, one enriched
C5_Witness ==
  /\ response # None
  /\ Len(venues) > max_venues
  /\ overtook
  /\ \E i \in DOMAIN research_tasks : research_tasks[i].search = "raise"
  /\ \E i \in DOMAIN research_tasks : IsSuccessful(research_tasks[i].result[1])

\* C6: every provider call carries a timeout, so when the call for one venue
\* never returns the research stage can still go on to completion: while
\* process is running with a call that hangs, some step remains possible.
C6_HungCallDoesNotBlockStage ==
  (phase = "running" /\ \E i \in DOMAIN research_tasks : research_tasks[i].pc = "hung")
    => ENABLED EnrichNext

(***************************************************************************)
(* LangGraphCoordinator: the adventure workflow                            *)
(***************************************************************************)
ResearchMaxVenues == 8   \* "max_venues": 8 in _research_venues_node

StageOrder ==
  <<"parse_location", "get_personalization", "parse_intent", "scout_venues",
    "research_venues", "summarize_research", "enhance_routing", "create_adventures">>

\* dict.get(key, default)
DictGet(d, key, default) == IF key \in DOMAIN d THEN d[key] ELSE default

\* workflow.add_edge
EdgeSkipsResearch(n) ==
  CASE n = "parse_location" -> "get_personalization"
    [] n = "get_personalization" -> "parse_intent"
    [] n = "scout_venues" -> "summarize_research"
    [] n = "research_venues" -> "summarize_research"
    [] n = "summarize_research" -> "enhance_routing"
    [] n = "enhance_routing" -> "create_adventures"
    [] n = "create_adventures" -> "END"

Edge(n) ==
  CASE n = "parse_location" -> "get_personalization"
    [] n = "get_personalization" -> "parse_intent"
    [] n = "scout_venues" -> "research_venues"
    [] n = "research_venues" -> "summarize_research"
    [] n = "summarize_research" -> "enhance_routing"
    [] n = "enhance_routing" -> "create_adventures"
    [] n = "create_adventures" -> "END"

IsClarification(error) == error # None /\ error[1].type = "clarification_needed"

AlwaysContinue(st) == "continue"

\* _should_continue_after_intent
ShouldContinueAfterIntent(st) ==
  IF IsClarification(st.error) THEN "stop"
  ELSE IF st.parsed_preferences = None THEN "stop"
  ELSE "continue"

\* the mapping of workflow.add_conditional_edges
ConditionalEdge(r) == IF r = "continue" THEN "scout_venues" ELSE "END"

\* IntentParserAgent._get_fallback_preferences
FallbackPreferences == [mood |-> "exploratory", preferences |-> <<"attractions">>]
ParsedPreferences == [mood |-> "curious", preferences |-> <<"museums", "coffee">>]

Messages == {None, Some("Tell me more")}
Suggestions == {<<>>, <<"Museums and coffee shops in Boston">>}

\* the responses IntentParserAgent.process can create
IntentReplies ==
  { [success |-> FALSE,
     data |-> [needs_clarification |-> TRUE, out_of_scope |-> TRUE,
               scope_issue |-> "unsupported_city",
               clarification_message |-> Some("Boston and New York City only"),
               suggestions |-> <<"Museums and coffee shops in Boston">>,
               detected_city |-> "Paris"]] }
  \cup { [success |-> FALSE,
          data |-> [needs_clarification |-> TRUE, unrelated_query |-> TRUE,
                    clarification_message |-> m, suggestions |-> sg]]
         : m \in Messages, sg \in Suggestions }
  \cup { [success |-> FALSE,
          data |-> [needs_clarification |-> TRUE, out_of_scope |-> TRUE,
                    scope_issue |-> "multi_day", clarification_message |-> m,
                    suggestions |-> sg]]
         : m \in Messages, sg \in Suggestions }
  \cup { [success |-> FALSE,
          data |-> [needs_clarification |-> TRUE, clarification_message |-> m,
                    suggestions |-> sg]]
         : m \in Messages, sg \in Suggestions }
  \cup { [success |-> TRUE,
          data |-> [parsed_preferences |-> pp, is_actionable |-> TRUE,
                    needs_clarification |-> FALSE]]
         : pp \in {ParsedPreferences, FallbackPreferences} }

Addresses == {None, Some("1 Main St, Boston")}
UserIds == {None, Some("u1")}
Outcomes == {"ok", "fail", "raise"}
ScoutResults == { <<>>, <<"mfa">>, <<"mfa", "zoo">> }
AdventureLists == { <<>>, <<"a1">> }

\* _create_initial_state
CreateInitialState(user_address, user_id) ==
  [user_address |-> user_address, user_id |-> user_id, target_location |-> None,
   user_personalization |-> None, parsed_preferences |-> None,
   scouted_venues |-> <<>>, researched_venues |-> <<>>, enhanced_locations |-> <<>>,
   final_adventures |-> <<>>,
   metadata |-> [research_stats |-> None, research_summarized |-> FALSE],
   error |-> None]

\* _build_completion_metadata
BuildCompletionMetadata(final_state) ==
  [workflow_success |-> TRUE,
   total_adventures |-> Len(final_state.final_adventures),
   target_location |-> final_state.target_location,
   research_stats |-> final_state.metadata.research_stats,
   research_summarized |-> final_state.metadata.research_summarized,
   timing_breakdown |-> timing_data,
   personalization_applied |-> final_state.user_personalization # None]

FlowStart ==
  /\ rag_system \in BOOLEAN
  /\ node = "idle"
  /\ state = None
  /\ timing_data = {}
  /\ returned = None
  /\ invoked = <<>>
  /\ intent_result = None
  /\ route = "none"
  /\ failed_stages = {}
  /\ flow_callback = "none"
  /\ emitted = <<>>
  /\ callback_error = "none"
  /\ router_error = None
  /\ ainvoke_error = FALSE
  /\ reference_run = [state |-> None, node |-> "idle", returned |-> None]

\* the progress callbacks a caller can pass: none, a function, a function
\* that raises, a coroutine function whose coroutine raises
CallbackKinds == {"none", "sync", "sync_raises", "async_raises"}

\* _emit_progress without its try/except
CallbackOutcomeUnguarded(callback) ==
  CASE callback = "none" -> "none"
    [] callback = "sync" -> "none"
    [] callback = "sync_raises" -> "escaped"
    [] callback = "async_raises" -> "in_task"

\* _emit_progress: what becomes of the exception of the callback. Nothing is
\* called without a callback, a function's exception is caught and logged,
\* and a coroutine runs in a task of its own, where its exception stays.
CallbackOutcome(callback) ==
  CASE callback = "none" -> "none"
    [] callback = "sync" -> "none"
    [] callback = "sync_raises" -> "swallowed"
    [] callback = "async_raises" -> "in_task"

Escaped == CallbackOutcome(flow_callback) = "escaped"

\* the "step" of the updates a node emits
StepName(n) == IF n = "get_personalization" THEN "personalization" ELSE n

Updates(step, statuses) ==
  [i \in 1..Len(statuses) |-> [step |-> step, status |-> statuses[i]]]

\* generate_adventures_with_progress up to workflow.ainvoke; without a
\* callback it does what generate_adventures does
Start(user_address, user_id, progress_callback) ==
  /\ node = "idle"
  /\ flow_callback' = progress_callback
  /\ emitted' = Updates("initialize", <<"in_progress">>)
  /\ callback_error' = CallbackOutcome(progress_callback)
  /\ reference_run' = [state |-> CreateInitialState(user_address, user_id),
                       node |-> "parse_location", returned |-> None]
  /\ IF CallbackOutcome(progress_callback) = "escaped"
     THEN /\ node' = "returned"
          /\ UNCHANGED <<state, timing_data>>
     ELSE /\ state' = CreateInitialState(user_address, user_id)
          /\ timing_data' = {}
          /\ node' = "parse_location"
  /\ UNCHANGED <<rag_system, returned, invoked, intent_result, route, failed_stages,
                 router_error, ainvoke_error,
                 cacheVars, matchVars, enrichVars, routeVars, reqVars, advVars, sseVars>>

\* what every node does besides its own work: n ran, its collaborator failed
\* or not, the state it returns, the timing keys it tracked and the statuses
\* of the updates it emitted, and the node the graph runs next. An exception
\* of _emit_progress would leave the node at its first update, which comes
\* before the node's try block, and end the graph run.
Ran(n, failed, st, tracked, statuses, next) ==
  /\ node' = IF Escaped THEN "END" ELSE next
  /\ reference_run' = [state |-> st, node |-> next, returned |-> None]
  /\ state' = IF Escaped THEN state ELSE st
  /\ invoked' = Append(invoked, n)
  /\ failed_stages' = IF failed THEN failed_stages \cup {n} ELSE failed_stages
  /\ timing_data' = IF Escaped THEN timing_data ELSE timing_data \cup tracked
  /\ emitted' = emitted \o Updates(StepName(n),
                                   IF Escaped THEN <<statuses[1]>> ELSE statuses)
  /\ callback_error' = CallbackOutcome(flow_callback)
  /\ ainvoke_error' = Escaped
  /\ UNCHANGED <<rag_system, returned, flow_callback,
                 cacheVars, matchVars, enrichVars, routeVars, reqVars, advVars, sseVars>>

ParseLocationNode(o) ==
  /\ node = "parse_location"
  /\ Ran("parse_location", o # "ok",
         [state EXCEPT !.target_location =
            IF o = "ok" THEN Some("Boston, MA")
            ELSE DictGet(state, "user_address", Some("Boston, MA"))],
         {"parse_location"},
         IF o = "ok" THEN <<"in_progress", "complete">> ELSE <<"in_progress">>, Edge("parse_location"))
  /\ UNCHANGED <<intent_result, route, router_error, routeVars, reqVars, advVars, sseVars>>

GetPersonalizationNode(o, has_history) ==
  /\ node = "get_personalization"
  /\ IF state.user_id = None \/ ~rag_system
     THEN Ran("get_personalization", FALSE,
              [state EXCEPT !.user_personalization = None], {},
              <<"in_progress", "complete">>, Edge("get_personalization"))
     ELSE Ran("get_personalization", o # "ok",
              [state EXCEPT !.user_personalization =
                 IF o = "ok" THEN Some([has_history |-> has_history]) ELSE None],
              {"personalization"},
              IF o = "ok" THEN <<"in_progress", "complete">> ELSE <<"in_progress">>, Edge("get_personalization"))
  /\ UNCHANGED <<intent_result, route, router_error, routeVars, reqVars, advVars, sseVars>>

\* what _parse_intent_node makes of the parser's answer
IntentClarifies(result) ==
  ~result.success \/ DictGet(result.data, "needs_clarification", FALSE)

IntentError(error_data) ==
  [type |-> "clarification_needed",
   message |-> DictGet(error_data, "clarification_message", Some("Please be more specific")),
   suggestions |-> DictGet(error_data, "suggestions", <<>>),
   out_of_scope |-> DictGet(error_data, "out_of_scope", FALSE),
   unrelated_query |-> DictGet(error_data, "unrelated_query", FALSE)]

IntentStatus(error_data) ==
  IF DictGet(error_data, "unrelated_query", FALSE) \/ DictGet(error_data, "out_of_scope", FALSE)
  THEN "error" ELSE "clarification_needed"

\* the state _parse_intent_node returns: o = "raise" is an exception inside
\* its try block, which is logged
IntentState(st, o, result) ==
  IF o = "raise" THEN st
  ELSE IF IntentClarifies(result)
  THEN [st EXCEPT !.error = Some(IntentError(result.data))]
  ELSE [st EXCEPT !.parsed_preferences = Some(result.data.parsed_preferences)]

\* the error _should_continue_after_intent stores in the dict it was given
RouterError(st) ==
  IF ~IsClarification(st.error) /\ st.parsed_preferences = None
  THEN Some([type |-> "clarification_needed",
             message |-> Some("What would you like to explore?"),
             suggestions |-> <<"Museums and coffee shops", "Parks and restaurants">>])
  ELSE None

\* _parse_intent_node and the conditional edge that follows it. The graph
\* keeps what the node returns; the router works on a dict read back from the
\* graph's channels, and nothing it stores there is written to them.
ParseIntentNode(o, result) ==
  /\ node = "parse_intent"
  /\ \E st \in {IntentState(state, o, result)} :
        /\ Ran("parse_intent",
               o = "raise" \/ (~IntentClarifies(result)
                               /\ result.data.parsed_preferences = FallbackPreferences),
               st,
               IF o = "ok" /\ IntentClarifies(result) THEN {} ELSE {"parse_intent"},
               IF o = "raise" THEN <<"in_progress">>
               ELSE IF IntentClarifies(result)
               THEN <<"in_progress", IntentStatus(result.data)>>
               ELSE <<"in_progress", "complete">>, ConditionalEdge(ShouldContinueAfterIntent(st)))
        /\ route' = IF Escaped THEN route ELSE ShouldContinueAfterIntent(st)
        /\ router_error' = IF Escaped THEN router_error ELSE RouterError(st)
  /\ intent_result' = IF o = "ok" THEN Some(result) ELSE intent_result

ScoutVenuesNode(o, found) ==
  /\ node = "scout_venues"
  /\ Ran("scout_venues", o # "ok",
         IF o = "ok" THEN [state EXCEPT !.scouted_venues = found] ELSE state,
         {"scout_venues"},
         IF o = "ok" THEN <<"in_progress", "complete">> ELSE <<"in_progress">>, Edge("scout_venues"))
  /\ UNCHANGED <<intent_result, route, router_error, routeVars, reqVars, advVars, sseVars>>

\* the research agent either answers or raises ProcessingError
ResearchVenuesNode(o) ==
  /\ node = "research_venues"
  /\ o # "fail"
  /\ LET venue_list == state.scouted_venues
         n == Min(Len(venue_list), ResearchMaxVenues)
     IN Ran("research_venues", o # "ok",
            IF o = "ok"
            THEN [state EXCEPT
                    !.researched_venues = [i \in 1..n |-> [name |-> venue_list[i]]],
                    !.metadata.research_stats = Some([total_venues |-> n])]
            ELSE state,
            {"research_venues"},
            IF o = "ok" THEN <<"in_progress", "complete">> ELSE <<"in_progress">>, Edge("research_venues"))
  /\ UNCHANGED <<intent_result, route, router_error, routeVars, reqVars, advVars, sseVars>>

\* the summaries _batch_summarize_venues can hand back for the first venues
SummaryLists == {<<>>, <<"summary">>, <<"summary", "summary">>}

\* ResearchSummaryAgent._create_fallback_summary
FallbackSummary(name) == "fallback"

\* a summary agent that returns only the venues it has a summary for
SummaryProcessDropsUnsummarized(researched_venues, summaries) ==
  [i \in 1..Min(Len(researched_venues), Len(summaries)) |->
     [name |-> researched_venues[i].name, research_summary |-> summaries[i]]]

\* ResearchSummaryAgent.process: a copy of every venue with its summary, or
\* with the fallback summary when there is none for it
SummaryProcess(researched_venues, summaries) ==
  [i \in 1..Len(researched_venues) |->
     [name |-> researched_venues[i].name,
      research_summary |-> IF i <= Len(summaries) THEN summaries[i]
                           ELSE FallbackSummary(researched_venues[i].name)]]

SummarizeResearchNode(o, summaries) ==
  /\ node = "summarize_research"
  /\ IF state.researched_venues = <<>>
     THEN Ran("summarize_research", FALSE, state, {}, <<"in_progress">>,
              Edge("summarize_research"))
     ELSE Ran("summarize_research", o # "ok",
              IF o = "ok"
              THEN [state EXCEPT
                      !.researched_venues = SummaryProcess(state.researched_venues, summaries),
                      !.metadata.research_summarized = TRUE]
              ELSE state,
              {"summarize_research"},
              IF o = "ok" THEN <<"in_progress", "complete">> ELSE <<"in_progress">>,
              Edge("summarize_research"))
  /\ UNCHANGED <<intent_result, route, router_error, routeVars, reqVars, advVars, sseVars>>

\* _extract_city_name: "Boston, MA" for no location; the locations of this
\* model have two comma-separated parts and are returned as they are
ExtractCityName(location) == IF location = None THEN "Boston, MA" ELSE location[1]

\* _convert_to_enhanced_locations for venues without address, address_hint
\* and neighborhood: the address is the venue name and the city
ConvertToEnhancedLocations(researched_venues, city_name) ==
  [i \in 1..Len(researched_venues) |->
     [name |-> researched_venues[i].name,
      address |-> researched_venues[i].name \o ", " \o city_name,
      type |-> "attraction"]]

\* the conversion is local code: it returns or raises
EnhanceRoutingNode(o) ==
  /\ node = "enhance_routing"
  /\ o # "fail"
  /\ Ran("enhance_routing", o # "ok",
         IF o = "ok"
         THEN [state EXCEPT !.enhanced_locations =
                 ConvertToEnhancedLocations(state.researched_venues,
                                            ExtractCityName(state.target_location))]
         ELSE state,
         {"enhance_routing"},
         IF o = "ok" THEN <<"in_progress", "complete">> ELSE <<"in_progress">>,
         Edge("enhance_routing"))
  /\ UNCHANGED <<intent_result, route, router_error, routeVars, reqVars, advVars, sseVars>>

CreateAdventuresNode(o, adventures) ==
  /\ node = "create_adventures"
  /\ Ran("create_adventures", o # "ok",
         IF o = "ok" THEN [state EXCEPT !.final_adventures = adventures] ELSE state,
         {"create_adventures"},
         IF o = "ok" THEN <<"in_progress", "in_progress", "complete">>
         ELSE <<"in_progress">>, Edge("create_adventures"))
  /\ UNCHANGED <<intent_result, route, router_error, routeVars, reqVars, advVars, sseVars>>

\* workflow.ainvoke raises between two nodes: an error of the graph run
\* itself, outside the try blocks of the nodes
AinvokeRaises ==
  /\ node \in {StageOrder[i] : i \in DOMAIN StageOrder}
  /\ ainvoke_error' = TRUE
  /\ node' = "END"
  /\ reference_run' = [reference_run EXCEPT !.node = "END"]
  /\ UNCHANGED <<rag_system, state, timing_data, returned, invoked, intent_result, route,
                 failed_stages, flow_callback, emitted, callback_error, router_error,
                 cacheVars, matchVars, enrichVars, routeVars, reqVars, advVars, sseVars>>

\* the except branch of generate_adventures returning the metadata of a run
\* that went well
OutcomeHidesError(raised, final_state) ==
  IF IsClarification(final_state.error)
  THEN [adventures |-> <<>>, metadata |-> [error |-> final_state.error[1]]]
  ELSE [adventures |-> final_state.final_adventures,
        metadata |-> BuildCompletionMetadata(final_state)]

\* what generate_adventures returns: the except branch when ainvoke raised
\* (its error is str(e)), else by the error of the final state
Outcome(raised, final_state) ==
  IF raised
  THEN [adventures |-> <<>>, metadata |-> [error |-> [str |-> "exception"]]]
  ELSE IF IsClarification(final_state.error)
  THEN [adventures |-> <<>>, metadata |-> [error |-> final_state.error[1]]]
  ELSE IF final_state.error # None
  THEN [adventures |-> <<>>, metadata |-> [error |-> final_state.error[1]]]
  ELSE [adventures |-> final_state.final_adventures,
        metadata |-> BuildCompletionMetadata(final_state)]

\* the status of the last update, step "complete"
FinalStatus(raised, final_state) ==
  IF raised THEN "error"
  ELSE IF IsClarification(final_state.error) THEN "clarification_needed"
  ELSE IF final_state.error # None THEN "error"
  ELSE "complete"

\* generate_adventures_with_progress after workflow.ainvoke. An exception of
\* the last update would reach the except branch, whose own update raises it
\* to the caller.
Return ==
  /\ node = "END"
  /\ returned' = IF Escaped THEN None ELSE Some(Outcome(ainvoke_error, state))
  /\ emitted' = Append(emitted, [step |-> "complete",
                                 status |-> FinalStatus(ainvoke_error, state)])
  /\ callback_error' = CallbackOutcome(flow_callback)
  /\ flow_callback' = "none"
  /\ node' = "returned"
  /\ reference_run' = [state |-> state, node |-> "returned",
                       returned |-> Some(Outcome(ainvoke_error, state))]
  /\ UNCHANGED <<rag_system, state, timing_data, invoked, intent_result, route,
                 failed_stages, router_error, ainvoke_error,
                 cacheVars, matchVars, enrichVars, routeVars, reqVars, advVars, sseVars>>

WorkflowNext ==
  \/ \E a \in Addresses, u \in UserIds, cb \in CallbackKinds : Start(a, u, cb)
  \/ \E o \in Outcomes : ParseLocationNode(o)
  \/ \E o \in {"ok", "raise"}, h \in BOOLEAN : GetPersonalizationNode(o, h)
  \/ \E o \in {"ok", "raise"}, result \in IntentReplies : ParseIntentNode(o, result)
  \/ \E o \in Outcomes, found \in ScoutResults : ScoutVenuesNode(o, found)
  \/ \E o \in Outcomes : ResearchVenuesNode(o)
  \/ \E o \in Outcomes, summaries \in SummaryLists : SummarizeResearchNode(o, summaries)
  \/ \E o \in Outcomes : EnhanceRoutingNode(o)
  \/ \E o \in Outcomes, adventures \in AdventureLists : CreateAdventuresNode(o, adventures)
  \/ AinvokeRaises
  \/ Return

WorkflowInit == FlowStart /\ CacheStart /\ MatchIdle /\ EnrichIdle /\ RouteIdle /\ ReqIdle /\ AdvIdle /\ SseIdle

SpecWorkflow == WorkflowInit /\ [][WorkflowNext]_vars

(***************************************************************************)
(* Claims about the workflow                                               *)
(***************************************************************************)
IsPrefix(p, q) == Len(p) <= Len(q) /\ p = SubSeq(q, 1, Len(p))

AskedToClarify ==
  /\ intent_result # None
  /\ \/ ~intent_result[1].success
     \/ DictGet(intent_result[1].data, "needs_clarification", FALSE)

\* C1: when the intent parser asks for clarification (success = false or
\* needs_clarification = true) the workflow ends right after parse_intent, no
\* later stage is ever run, and generate_adventures returns no adventures and
\* an error of type clarification_needed whose message and suggestions are
\* the parser's clarification_message and suggestions.
C1_ClarificationEndsWorkflow ==
  AskedToClarify =>
    /\ node \in {"END", "returned"}
    /\ invoked = <<"parse_location", "get_personalization", "parse_intent">>
    /\ returned # None =>
         /\ returned[1].adventures = <<>>
         /\ returned[1].metadata.error.type = "clarification_needed"
         /\ returned[1].metadata.error.message = intent_result[1].data.clarification_message
         /\ returned[1].metadata.error.suggestions = intent_result[1].data.suggestions

\* a clarification without a message has been returned to the caller
C1_Witness ==
  /\ AskedToClarify
  /\ returned # None
  /\ intent_result[1].data.clarification_message = None
  /\ intent_result[1].data.suggestions # <<>>

\* C2: in a run that does not branch to clarification the eight stages run
\* exactly once each, in the order parse_location, get_personalization,
\* parse_intent, scout_venues, research_venues, summarize_research,
\* enhance_routing, create_adventures, whatever collaborators fail on the way
\* (a run that workflow.ainvoke itself ends with an exception stops where it is).
C2_StagesRunOnceInOrder ==
  /\ IsPrefix(invoked, StageOrder)
  /\ node \in {"parse_location", "get_personalization", "parse_intent"} =>
       node = StageOrder[Len(invoked) + 1]
  /\ (route = "continue" /\ ~ainvoke_error) =>
       /\ Len(invoked) >= 3
       /\ IF node \in {"END", "returned"} THEN invoked = StageOrder
          ELSE node = StageOrder[Len(invoked) + 1]

\* a finished run in which the collaborators of at least five stages failed
C2_Witness ==
  /\ node = "returned"
  /\ route = "continue"
  /\ invoked = StageOrder
  /\ Cardinality(failed_stages) >= 5

(***************************************************************************)
(* Further claims about the matcher                                        *)
(***************************************************************************)
\* used_indices as the k-th mention left it
UsedAfter(k) == IF k < Len(diag) THEN diag[k + 1].used_before ELSE used_indices

\* every tier gives the pair a score below 0.5: not equal, neither contains
\* the other, character similarity below 0.85, shared words under half of all
ScoresBelowHalf(venue_lower, loc_name) ==
  /\ venue_lower # loc_name
  /\ ~IsSubstring(venue_lower, loc_name)
  /\ ~IsSubstring(loc_name, venue_lower)
  /\ \/ Abs(Len(venue_lower) - Len(loc_name)) > 5
     \/ ~Ge(Ratio(venue_lower, loc_name), <<85, 100>>)
  /\ 2 * Cardinality(SplitWords(venue_lower) \cap SplitWords(loc_name))
       < Cardinality(SplitWords(venue_lower) \cup SplitWords(loc_name))

\* C11: a mention whose best tiered score over the still unused locations is
\* below 0.5 is dropped: it adds nothing to the result, takes no location,
\* and the pass goes on with the next mention; "Random Unrelated Place"
\* against ["Museum of Fine Arts, Boston", "MIT Museum"] yields no match.
C11_LowScoreMentionDropped ==
  /\ \A k \in 1..Len(diag) :
       LET d == diag[k]
       IN (\A i \in Unused(d) : ScoresBelowHalf(MentionOf(d), LowerStrip(locations[i])))
          => (~d.accepted /\ UsedAfter(k) = d.used_before)
  /\ Len(matched) = Cardinality({ k \in 1..Len(diag) : diag[k].accepted })
  /\ mpos = Len(diag)
  /\ (venues_used = <<MentionRandom>> /\ locations = <<LocMFA, LocMIT>> /\ mpos = 1) =>
       (matched = <<>> /\ used_indices = {})

\* the first mention was dropped with a location on offer, which the second
\* mention then took
C11_Witness ==
  /\ mpos = 2
  /\ Len(venues_used) = 2
  /\ ~diag[1].accepted
  /\ Unused(diag[1]) # {}
  /\ diag[2].accepted
  /\ diag[2].used_before = {}

(***************************************************************************)
(* The same batch researched twice by one agent                            *)
(***************************************************************************)
MaxCalls == 2          \* calls of process per behaviour of SpecRepeat
BatchSize == MaxSize   \* the batch fits the cache, as 6 venues fit max_size = 200

Boston == <<"B", "o", "s", "t", "o", "n", ",", " ", "M", "A">>

\* n venues with different names
Batch(n) == [i \in 1..n |-> [name |-> <<"c", "a", "f", "e", " ", ToString(i)>>]]

\* the first call, on a new agent with an empty cache
FirstCall(n, mv) ==
  /\ phase = "idle"
  /\ ProcessCall(Batch(n), mv, Boston)

\* the same input given to process again, once the call before has returned
Repeat ==
  /\ phase = "done"
  /\ Len(past_calls) < MaxCalls
  /\ ProcessCall(venues, max_venues, in_location)

RepeatNext ==
  \/ \E n \in 1..BatchSize, mv \in {DefaultMaxVenues, ResearchMaxVenues} : FirstCall(n, mv)
  \/ \E i \in 1..BatchSize : TaskStart(i)
  \/ \E i \in 1..BatchSize, outcome \in SearchOutcomes : SearchReturns(i, outcome)
  \/ \E i \in 1..BatchSize, outcome \in ExtractOutcomes : ExtractReturns(i, outcome)
  \/ Gather
  \/ Repeat

RepeatInit == EnrichIdle /\ CacheStart /\ MatchIdle /\ FlowIdle /\ RouteIdle /\ ReqIdle /\ AdvIdle /\ SseIdle

SpecRepeat == RepeatInit /\ [][RepeatNext]_vars

AllEnriched(call) ==
  \A i \in 1..Len(call.response.data.researched_venues) :
    call.response.data.researched_venues[i].research_status \notin {"failed", "unknown"}

\* C12 as stated: the first call of a batch on an empty cache records one
\* miss per venue, returns them all enriched and reports hit_rate "0%"; the
\* same batch again records one hit per venue, calls the provider for none
\* and reports hit_rate "100%".
C12_RepeatReportsFullHitRate ==
  (Len(past_calls) >= 2 /\ AllEnriched(past_calls[1])) =>
    LET first == past_calls[1]
        second == past_calls[2]
        n == Len(venues)
    IN /\ first.cache_stats.misses = n
       /\ Len(first.response.data.researched_venues) = n
       /\ first.response.data.research_stats.cache_hit_rate = "0%"
       /\ second.cache_stats.hits = n
       /\ second.provider_calls = 0
       /\ second.response.data.research_stats.cache_hit_rate = "100%"

\* C12 as amended: the counters are cumulative and the rate is printed with
\* one decimal, so the first call reports "0.0%" and the second, with as many
\* hits as misses, "50.0%"; the second call returns the cached entities.
C12_RepeatHitsCacheCumulativeRate ==
  (Len(past_calls) >= 2 /\ AllEnriched(past_calls[1])) =>
    LET first == past_calls[1]
        second == past_calls[2]
        n == Len(venues)
    IN /\ first.cache_stats.misses = n
       /\ first.cache_stats.hits = 0
       /\ first.provider_calls = n
       /\ Len(first.response.data.researched_venues) = n
       /\ first.response.data.research_stats.cache_hit_rate = "0.0%"
       /\ second.cache_stats.hits = n
       /\ second.cache_stats.misses = n
       /\ second.provider_calls = 0
       /\ second.response.data.research_stats.cache_hits = n
       /\ second.response.data.research_stats.cache_hit_rate = "50.0%"
       /\ second.response.data.researched_venues = first.response.data.researched_venues

\* a full batch, all enriched, has been researched twice
C12_Witness ==
  /\ Len(past_calls) = 2
  /\ Len(venues) = BatchSize
  /\ AllEnriched(past_calls[1])
  /\ overtook

\* C13: no payload in the cache has research_status failed (or unknown): a
\* fallback profile is never stored, so when a venue's research failed the
\* next call for the same venue misses the cache and asks the provider again.
C13_NoFailedPayloadCached ==
  /\ \A k \in 1..Len(cache) : cache[k].data.research_status \notin {"failed", "unknown"}
  /\ (Len(past_calls) >= 1 /\ phase = "running") =>
       \A i \in DOMAIN research_tasks :
         LET before == past_calls[Len(past_calls)].response.data.researched_venues[i]
         IN (before.research_status = "failed" /\ research_tasks[i].pc # "new")
              => research_tasks[i].search # "cached"

\* a venue whose research failed in the first call is researched again
C13_Witness ==
  /\ Len(past_calls) = 1
  /\ phase = "running"
  /\ \E i \in DOMAIN research_tasks :
       /\ past_calls[1].response.data.researched_venues[i].research_status = "failed"
       /\ research_tasks[i].pc = "extract"
  /\ \E i \in DOMAIN research_tasks : research_tasks[i].search = "cached"

(***************************************************************************)
(* EnhancedRoutingAgent: the route URL                                     *)
(***************************************************************************)
MaxStops == 25                \* longest list of stops given to the URL builder
WalkingWaypointLimit == 9     \* max_waypoints for walking and transit
DrivingWaypointLimit == 23    \* max_waypoints for driving

TravelModes == {"walking", "transit", "driving"}

\* urllib.parse.quote of one address; the URL is kept as its components
Quote(address) == <<"quoted", address>>

MaxWaypointsAsDriving(travel_mode) == DrivingWaypointLimit

MaxWaypoints(travel_mode) ==
  IF travel_mode \in {"walking", "transit"} THEN WalkingWaypointLimit
  ELSE DrivingWaypointLimit

\* _build_complete_google_maps_url: the URL, and whether truncation was logged
BuildCompleteGoogleMapsUrl(origin, all_stops, travel_mode) ==
  IF all_stops = <<>> THEN [url |-> None, truncated |-> FALSE]
  ELSE LET stop_addresses == [i \in 1..Len(all_stops) |-> all_stops[i].address] IN
       IF Len(stop_addresses) = 1
       THEN [url |-> Some([origin |-> Quote(origin),
                           destination |-> Quote(stop_addresses[1]),
                           waypoints |-> <<>>, travelmode |-> travel_mode]),
             truncated |-> FALSE]
       ELSE LET final_destination == stop_addresses[Len(stop_addresses)]
                waypoints == SubSeq(stop_addresses, 1, Len(stop_addresses) - 1)
                max_waypoints == MaxWaypoints(travel_mode)
                truncate == Len(waypoints) > max_waypoints
                kept == IF truncate THEN SubSeq(waypoints, 1, max_waypoints) ELSE waypoints
            IN [url |-> Some([origin |-> Quote(origin),
                              destination |-> Quote(final_destination),
                              waypoints |-> [i \in 1..Len(kept) |-> Quote(kept[i])],
                              travelmode |-> travel_mode]),
                truncated |-> truncate]

\* n stops with different addresses
StopList(n) == [i \in 1..n |-> [name |-> i, address |-> i]]

Origins == {"1 Main St, Boston", "Boston, MA"}

BuildUrl(origin, n, travel_mode) ==
  /\ url_call = None
  /\ url_call' = Some([origin |-> origin, all_stops |-> StopList(n),
                       travel_mode |-> travel_mode])
  /\ LET r == BuildCompleteGoogleMapsUrl(origin, StopList(n), travel_mode)
     IN url_result' = r.url /\ url_truncated' = r.truncated
  /\ UNCHANGED <<cacheVars, matchVars, enrichVars, flowVars, reqVars, advVars, sseVars>>

UrlNext == \E origin \in Origins, n \in 0..MaxStops, travel_mode \in TravelModes :
             BuildUrl(origin, n, travel_mode)

UrlInit == RouteIdle /\ CacheStart /\ MatchIdle /\ EnrichIdle /\ FlowIdle /\ ReqIdle /\ AdvIdle /\ SseIdle

SpecUrl == UrlInit /\ [][UrlNext]_vars

\* C14: the URL has at most 9 waypoints for walking or transit and at most 23
\* for driving; with more stops the first waypoints are kept, the last stop
\* stays the destination and the truncation is logged; 4 stops in walking
\* mode are all in the URL with nothing logged, 12 stops give 9 waypoints
\* and the destination.
C14_WaypointCeiling ==
  (url_call # None /\ url_call[1].all_stops # <<>>) =>
    LET stops == url_call[1].all_stops
        mode == url_call[1].travel_mode
        n == Len(stops)
        ceiling == IF mode = "driving" THEN 23 ELSE 9
        url == url_result[1]
    IN /\ url_result # None
       /\ Len(url.waypoints) = Min(n - 1, ceiling)
       /\ \A i \in 1..Len(url.waypoints) : url.waypoints[i] = Quote(stops[i].address)
       /\ url.destination = Quote(stops[n].address)
       /\ url.origin = Quote(url_call[1].origin)
       /\ url_truncated <=> (n - 1 > ceiling)
       /\ (n = 4 /\ mode = "walking") => (Len(url.waypoints) = 3 /\ ~url_truncated)
       /\ (n = 12 /\ mode = "walking") => (Len(url.waypoints) = 9 /\ url_truncated)

\* 12 stops in walking mode, cut to 9 waypoints
C14_Witness ==
  /\ url_call # None
  /\ Len(url_call[1].all_stops) = 12
  /\ url_call[1].travel_mode = "walking"
  /\ url_truncated

(***************************************************************************)
(* Two requests on one LangGraphCoordinator                                *)
(*                                                                         *)
(* The API keeps one coordinator for the process and every request calls   *)
(* generate_adventures or generate_adventures_with_progress on it.  A      *)
(* request gives up the event loop where a node awaits its collaborator;   *)
(* everything between two such awaits runs in one step.                    *)
(***************************************************************************)
RequestIds == {1, 2}
ConcNodes == 2      \* number of workflow nodes each request runs

EmptyDict == [k \in {} |-> 0]

NewRequest == [pc |-> "new", entry |-> "none", callback |-> None, stage |-> 0,
               metadata |-> None]

\* _emit_progress: the update goes to whatever self.progress_callback is now
EmitProgress(log, r, callback_now) == log \cup {[from |-> r, to |-> callback_now]}

\* _track_timing: self.timing_data[operation] = elapsed, elapsed measured by r
TrackTiming(d, operation, r) ==
  [k \in DOMAIN d \cup {operation} |-> IF k = operation THEN r ELSE d[k]]

\* generate_adventures_with_progress up to the first node's await
GenerateAdventuresWithProgress(r, cb) ==
  /\ requests[r].pc = "new"
  /\ self_progress_callback' = cb
  /\ self_timing_data' = EmptyDict
  /\ delivered' = EmitProgress(delivered, r, cb)
  /\ requests' = [requests EXCEPT ![r] =
                    [pc |-> "await", entry |-> "generate_adventures_with_progress",
                     callback |-> cb, stage |-> 1, metadata |-> None]]
  /\ UNCHANGED <<cacheVars, matchVars, enrichVars, flowVars, routeVars, advVars, sseVars>>

\* generate_adventures up to the first node's await
GenerateAdventures(r) ==
  /\ requests[r].pc = "new"
  /\ self_timing_data' = EmptyDict
  /\ delivered' = EmitProgress(delivered, r, self_progress_callback)
  /\ requests' = [requests EXCEPT ![r] =
                    [pc |-> "await", entry |-> "generate_adventures",
                     callback |-> None, stage |-> 1, metadata |-> None]]
  /\ UNCHANGED <<self_progress_callback,
                 cacheVars, matchVars, enrichVars, flowVars, routeVars, advVars, sseVars>>

\* the awaited collaborator of request r returns: the node emits, tracks its
\* timing, and either the next node runs up to its await or the entry point
\* builds the metadata, emits "complete" and returns
NodeReturns(r) ==
  /\ requests[r].pc = "await"
  /\ LET req == requests[r]
         tracked == TrackTiming(self_timing_data, StageOrder[req.stage], r)
     IN /\ self_timing_data' = tracked
        /\ delivered' = EmitProgress(delivered, r, self_progress_callback)
        /\ IF req.stage < ConcNodes
           THEN /\ requests' = [requests EXCEPT ![r].stage = req.stage + 1]
                /\ UNCHANGED self_progress_callback
           ELSE /\ requests' = [requests EXCEPT ![r].pc = "done",
                                               ![r].metadata = Some([timing_breakdown |-> tracked])]
                /\ self_progress_callback' =
                     IF req.entry = "generate_adventures_with_progress" THEN None
                     ELSE self_progress_callback
  /\ UNCHANGED <<cacheVars, matchVars, enrichVars, flowVars, routeVars, advVars, sseVars>>

SharedNext ==
  \E r \in RequestIds :
    \/ \E cb \in {None, Some(r)} : GenerateAdventuresWithProgress(r, cb)
    \/ GenerateAdventures(r)
    \/ NodeReturns(r)

SharedStart ==
  /\ self_progress_callback = None
  /\ self_timing_data = EmptyDict
  /\ requests = [r \in RequestIds |-> NewRequest]
  /\ delivered = {}

SharedInit ==
  SharedStart /\ CacheStart /\ MatchIdle /\ EnrichIdle /\ FlowIdle /\ RouteIdle /\ AdvIdle /\ SseIdle

SpecShared == SharedInit /\ [][SharedNext]_vars

\* C15: with two requests running on the same coordinator, every progress
\* event of a request is delivered to the callback that request registered
\* (to none if it registered none), and the timing_breakdown a request
\* returns holds only durations that request measured.
C15_NoStateLeaksBetweenRequests ==
  /\ \A e \in delivered : e.to = requests[e.from].callback
  /\ \A r \in DOMAIN requests :
       requests[r].metadata # None =>
         LET breakdown == requests[r].metadata[1].timing_breakdown
         IN \A k \in DOMAIN breakdown : breakdown[k] = r

(***************************************************************************)
(* The routing stage: _add_individual_routing_to_adventures                *)
(*                                                                         *)
(* Strings are sequences of characters and None is the empty sequence;    *)
(* the inputs of the model hold no empty string, so  not x  is  x = None.  *)
(* The adventures of the model have no steps: venues_from_steps is empty   *)
(* and _reorder_steps_by_locations returns the steps as they are.          *)
(***************************************************************************)
Digits == {"0", "1", "2", "3", "4", "5", "6", "7", "8", "9"}

GeographicTerms ==
  { <<"s","t","r","e","e","t">>, <<"s","t">>, <<"a","v","e","n","u","e">>,
    <<"a","v","e">>, <<"r","o","a","d">>, <<"r","d">>, <<"d","r","i","v","e">>,
    <<"d","r">>, <<"b","o","u","l","e","v","a","r","d">>, <<"b","l","v","d">>,
    <<"p","l","a","c","e">>, <<"p","l">>, <<"w","a","y">>, <<"l","a","n","e">>,
    <<"l","n">>, <<"s","q","u","a","r","e">>, <<"p","a","r","k","w","a","y">>,
    <<"h","i","g","h","w","a","y">>, <<"r","o","u","t","e">>, <<"t","r","a","i","l">>,
    <<"c","i","r","c","l","e">>, <<"c","o","u","r","t">>, <<"c","t">> }

LocationIndicators ==
  { <<"p","a","r","k">>, <<"n","a","t","i","o","n","a","l">>, <<"h","o","t","e","l">>,
    <<"i","n","n">>, <<"r","e","s","o","r","t">>, <<"l","o","d","g","e">>,
    <<"c","a","m","p","g","r","o","u","n","d">>, <<"m","u","s","e","u","m">>,
    <<"c","e","n","t","e","r">>, <<"b","u","i","l","d","i","n","g">>,
    <<"h","o","u","s","e">>, <<"c","a","m","p","u","s">>, <<"h","a","r","b","o","r">>,
    <<"b","e","a","c","h">> }

\* EnhancedRoutingAgent._is_valid_address
IsValidAddress(address) ==
  /\ address # None
  /\ Len(Strip(address)) >= 5
  /\ LET address_lower == Lower(address)
         has_geographic == \E term \in GeographicTerms : IsSubstring(term, address_lower)
         has_numbers == \E i \in 1..Len(address) : address[i] \in Digits
         has_location_format == \E i \in 1..Len(address) : address[i] = ","
         has_landmark == \E term \in LocationIndicators : IsSubstring(term, address_lower)
     IN has_geographic \/ has_numbers \/ (has_location_format /\ has_landmark)

\* ' '.join(s.split()) of a stripped string
RECURSIVE JoinWords(_)
JoinWords(s) ==
  IF s = <<>> THEN <<>>
  ELSE IF Head(s) \in Whitespace THEN <<" ">> \o JoinWords(LStrip(s))
  ELSE <<Head(s)>> \o JoinWords(Tail(s))

IsQuoteChar(c) == c \in {"\"", "'"}

\* EnhancedRoutingAgent._clean_address_for_routing
CleanAddressForRouting(address) ==
  IF address = None THEN <<>>
  ELSE JoinWords(Strip(SelectSeq(Strip(address), LAMBDA c : ~IsQuoteChar(c))))

\* the loop of _prepare_complete_route_data over the locations
ValidStops(locs) ==
  LET valid == SelectSeq(locs, LAMBDA loc : IsValidAddress(loc.address))
  IN [i \in 1..Len(valid) |->
        [name |-> valid[i].name, address |-> CleanAddressForRouting(valid[i].address)]]

\* the rest of _prepare_complete_route_data: the origin and the stops
RouteData(all_valid_stops, user_addr) ==
  IF all_valid_stops = <<>> THEN None
  ELSE IF user_addr # None /\ IsValidAddress(user_addr)
  THEN Some([origin |-> CleanAddressForRouting(user_addr),
             all_stops |-> all_valid_stops, use_user_origin |-> TRUE])
  ELSE Some([origin |-> all_valid_stops[1].address,
             all_stops |-> Tail(all_valid_stops), use_user_origin |-> FALSE])

\* EnhancedRoutingAgent._prepare_complete_route_data
PrepareCompleteRouteData(locs, user_addr) == RouteData(ValidStops(locs), user_addr)

\* one entry of route_options
RouteOption(route_data, mode, recommended) ==
  [mode |-> mode,
   url |-> BuildCompleteGoogleMapsUrl(route_data.origin, route_data.all_stops, mode).url,
   recommended |-> recommended]

\* next((opt for opt in route_options if opt["recommended"]), route_options[0] ...)
PrimaryOption(route_options) ==
  LET recommended_options == SelectSeq(route_options, LAMBDA opt : opt.recommended)
  IN IF recommended_options # <<>> THEN Some(recommended_options[1])
     ELSE IF route_options # <<>> THEN Some(route_options[1])
     ELSE None

\* the result of _generate_complete_routing_options for a primary option
RoutingOptions(primary_option) ==
  [primary_url |-> IF primary_option # None THEN primary_option[1].url ELSE None,
   recommended_mode |-> IF primary_option # None THEN primary_option[1].mode
                        ELSE "walking"]

\* EnhancedRoutingAgent._generate_complete_routing_options
GenerateCompleteRoutingOptions(route_data) ==
  IF route_data.all_stops = <<>>
  THEN [primary_url |-> None, recommended_mode |-> "walking"]
  ELSE RoutingOptions(PrimaryOption(
         SelectSeq(<<RouteOption(route_data, "walking", Len(route_data.all_stops) <= 4),
                     RouteOption(route_data, "transit", Len(route_data.all_stops) > 4),
                     RouteOption(route_data, "driving", FALSE)>>,
                   LAMBDA opt : opt.url # None)))

\* what generate_intelligent_route returns for the prepared route data
RoutingResult(route_data, routing_options) ==
  [primary_route_url |-> routing_options.primary_url,
   recommended_travel_mode |-> routing_options.recommended_mode,
   total_stops_included |-> Len(route_data.all_stops)]

RouteFrom(route_data) ==
  IF route_data = None THEN [error |-> "Could not prepare route data"]
  ELSE RoutingResult(route_data[1], GenerateCompleteRoutingOptions(route_data[1]))

\* EnhancedRoutingAgent.generate_intelligent_route; target_location and
\* user_preferences are only logged
GenerateIntelligentRoute(locs, user_addr) ==
  IF locs = <<>> THEN [error |-> "No locations provided"]
  ELSE RouteFrom(PrepareCompleteRouteData(locs, user_addr))

\* _build_google_maps_url_from_directions, for an origin that is a string
BuildGoogleMapsUrlFromDirections(origin, locs, mode) ==
  IF locs = <<>> THEN None
  ELSE LET waypoints == [i \in 1..(Len(locs) - 1) |-> locs[i].address]
           kept == SelectSeq(waypoints, LAMBDA wp : wp # None)
       IN Some([origin |-> Quote(origin),
                destination |-> Quote(locs[Len(locs)].address),
                waypoints |-> [i \in 1..Len(kept) |-> Quote(kept[i])],
                travelmode |-> mode])

\* _calculate_optimization_savings
CalculateOptimizationSavings(optimized_order) ==
  IF \A i \in 1..Len(optimized_order) : optimized_order[i] = i - 1
  THEN "No reordering needed (already optimal)"
  ELSE "Reordered waypoints for efficiency"

\* the answers of gmaps.directions for n locations: it raises, returns
\* nothing, or returns a route with or without a waypoint_order
WaypointOrders(n) == SeqsUpTo(0..(n - 2), 0, n - 1)

DirectionsReplies(n) ==
  {[kind |-> "raise"], [kind |-> "none"], [kind |-> "route", route |-> [legs |-> <<>>]]}
    \cup { [kind |-> "route", route |-> [legs |-> <<>>, waypoint_order |-> order]] :
             order \in WaypointOrders(n) }

\* what _get_optimized_route_from_google returns when it gives up
NotOptimized(locs, called) ==
  [optimized_url |-> None, optimized_locations |-> locs, route_details |-> None,
   called |-> called]

\* the loop  for idx in optimized_order  and the destination added last
OptimizedLocations(locs, optimized_order) ==
  LET kept == SelectSeq(optimized_order, LAMBDA idx : idx < Len(locs) - 1)
  IN [i \in 1..Len(kept) |-> locs[kept[i] + 1]] \o <<locs[Len(locs)]>>

\* what _get_optimized_route_from_google returns for the route of the provider
Optimized(origin, optimized_locations, optimized_order, mode) ==
  [optimized_url |-> BuildGoogleMapsUrlFromDirections(origin, optimized_locations, mode),
   optimized_locations |-> optimized_locations,
   route_details |->
     Some([optimization_savings |-> CalculateOptimizationSavings(optimized_order)]),
   called |-> TRUE]

\* _get_optimized_route_from_google; called tells whether gmaps.directions
\* ran.  An origin of None makes the call, or urllib's quote, raise.
GetOptimizedRouteFromGoogle(origin, locs, mode, enabled, reply) ==
  IF ~enabled \/ locs = <<>> THEN NotOptimized(locs, FALSE)
  ELSE IF \A i \in 1..Len(locs) : locs[i].address = None THEN NotOptimized(locs, FALSE)
  ELSE IF reply.kind # "route" \/ origin = None THEN NotOptimized(locs, TRUE)
  ELSE Optimized(origin,
                 OptimizedLocations(locs, DictGet(reply.route, "waypoint_order", <<>>)),
                 DictGet(reply.route, "waypoint_order", <<>>), mode)

\* str.rstrip('.,!?')
RECURSIVE RStripPunctuation(_)
RStripPunctuation(s) ==
  IF s # <<>> /\ s[Len(s)] \in {".", ",", "!", "?"}
  THEN RStripPunctuation(SubSeq(s, 1, Len(s) - 1)) ELSE s

\* activity.split(" at ", 1)[1]: what follows the first " at "
AfterAt(activity) ==
  LET i == CHOOSE i \in 1..(Len(activity) - 3) :
             /\ SubSeq(activity, i, i + 3) = <<" ", "a", "t", " ">>
             /\ \A h \in 1..(i - 1) : SubSeq(activity, h, h + 3) # <<" ", "a", "t", " ">>
  IN SubSeq(activity, i + 4, Len(activity))

HasPrefix(s, prefix) == Len(s) >= Len(prefix) /\ SubSeq(s, 1, Len(prefix)) = prefix

\* what follows the first of the keywords that starts the activity (in any
\* case), None when none of them does:  ^(?:Visit|Explore)  with re.IGNORECASE
AfterKeyword(activity, keywords) ==
  IF \E k \in 1..Len(keywords) : HasPrefix(Lower(activity), keywords[k])
  THEN LET k == CHOOSE k \in 1..Len(keywords) : HasPrefix(Lower(activity), keywords[k])
       IN Some(SubSeq(activity, Len(keywords[k]) + 1, Len(activity)))
  ELSE None

\* what  \s+(?:the\s+)?(.+?)$  captures in the text after the keyword (a text
\* without line breaks), None when the pattern does not match.  Both \s+
\* give back a character when nothing else is left for the group.
GroupAfterKeyword(text) ==
  IF Len(text) < 2 \/ Head(text) \notin Whitespace THEN None
  ELSE LET rest == LStrip(text)
           after_the == SubSeq(rest, 4, Len(rest))
       IN IF rest = <<>> THEN Some(<<text[Len(text)]>>)
          ELSE IF HasPrefix(Lower(rest), <<"t", "h", "e">>) /\ Len(rest) > 3
                  /\ rest[4] \in Whitespace
          THEN IF LStrip(after_the) # <<>> THEN Some(LStrip(after_the))
               ELSE IF Len(after_the) = 1 THEN Some(rest)
               ELSE Some(<<rest[Len(rest)]>>)
          ELSE Some(rest)

\* the group without a closing  \s+Trail  or  \s+Loop , when something is
\* left before it
WithoutWord(group, word) ==
  IF Len(group) > Len(word)
     /\ Lower(SubSeq(group, Len(group) - Len(word) + 1, Len(group))) = word
     /\ group[Len(group) - Len(word)] \in Whitespace
     /\ RStrip(SubSeq(group, 1, Len(group) - Len(word))) # <<>>
  THEN Some(RStrip(SubSeq(group, 1, Len(group) - Len(word))))
  ELSE None

\* the venue of a step that starts with Hike
HikeVenue(activity, group) ==
  LET short == IF WithoutWord(group, <<"t", "r", "a", "i", "l">>) # None
               THEN WithoutWord(group, <<"t", "r", "a", "i", "l">>)[1]
               ELSE IF WithoutWord(group, <<"l", "o", "o", "p">>) # None
               THEN WithoutWord(group, <<"l", "o", "o", "p">>)[1]
               ELSE group
      venue == Strip(short)
  IN IF IsSubstring(<<"t", "r", "a", "i", "l">>, Lower(activity))
        /\ ~IsSubstring(<<"t", "r", "a", "i", "l">>, Lower(venue))
     THEN venue \o <<" ", "T", "r", "a", "i", "l">>
     ELSE venue

VisitExplore == << <<"v", "i", "s", "i", "t">>, <<"e", "x", "p", "l", "o", "r", "e">> >>
Hike == << <<"h", "i", "k", "e">> >>
TourSee == << <<"t", "o", "u", "r">>, <<"s", "e", "e">> >>

\* whether the pattern that starts with one of the keywords matches
Matches(activity, keywords) ==
  /\ AfterKeyword(activity, keywords) # None
  /\ GroupAfterKeyword(AfterKeyword(activity, keywords)[1]) # None

Group(activity, keywords) == GroupAfterKeyword(AfterKeyword(activity, keywords)[1])[1]

\* the venues one step adds to the list
StepVenues(activity) ==
  IF IsSubstring(<<" ", "a", "t", " ">>, activity)
  THEN <<RStripPunctuation(Strip(AfterAt(activity)))>>
  ELSE IF Matches(activity, VisitExplore)
  THEN <<RStripPunctuation(Strip(Group(activity, VisitExplore)))>>
  ELSE IF Matches(activity, Hike)
  THEN <<HikeVenue(activity, Group(activity, Hike))>>
  ELSE IF Matches(activity, TourSee)
  THEN <<RStripPunctuation(Strip(Group(activity, TourSee)))>>
  ELSE <<>>

\* _extract_venues_from_steps
RECURSIVE ExtractVenuesFromSteps(_)
ExtractVenuesFromSteps(steps) ==
  IF steps = <<>> THEN <<>>
  ELSE StepVenues(Head(steps).activity) \o ExtractVenuesFromSteps(Tail(steps))

\* a loop that drops only the names already seen in the same spelling
RECURSIVE DeduplicateExact(_, _)
DeduplicateExact(names, seen) ==
  IF names = <<>> THEN <<>>
  ELSE IF Head(names) \in seen THEN DeduplicateExact(Tail(names), seen)
  ELSE <<Head(names)>> \o DeduplicateExact(Tail(names), seen \cup {Head(names)})

\* the loop that drops the names already seen, compared lowered and stripped
RECURSIVE Deduplicate(_, _)
Deduplicate(names, seen) ==
  IF names = <<>> THEN <<>>
  ELSE LET venue_lower == LowerStrip(Head(names)) IN
       IF venue_lower \in seen THEN Deduplicate(Tail(names), seen)
       ELSE <<Head(names)>> \o Deduplicate(Tail(names), seen \cup {venue_lower})

RECURSIVE MatchFrom(_, _, _)
MatchFrom(names, loc_names, used) ==
  IF names = <<>> THEN <<>>
  ELSE LET best == ScanLocations(LowerStrip(Head(names)), loc_names, used, 1, NoBest) IN
       IF Accepted(best)
       THEN <<best.idx>> \o MatchFrom(Tail(names), loc_names, used \cup {best.idx})
       ELSE MatchFrom(Tail(names), loc_names, used)

\* a matcher that returns every location, whatever the mentions
MatchEverything(names, locs) == locs

\* _match_venues_to_locations_with_typo_tolerance, as one call
MatchVenuesToLocations(names, locs) ==
  LET idxs == MatchFrom(names, [i \in 1..Len(locs) |-> locs[i].name], {})
  IN [i \in 1..Len(idxs) |-> locs[idxs[i]]]

\* one round of the loop  for idx, adventure in enumerate(adventures)  up to
\* the call of the optimization provider
BeforeOptimization(adventure, locs) ==
  IF adventure.venues_used = None
  THEN [raised |-> TRUE, all_venue_names |-> <<>>, adventure_locations |-> <<>>]
  ELSE LET venues_from_array == adventure.venues_used[1]
           venues_from_steps == ExtractVenuesFromSteps(adventure.steps)
           all_venue_names == Deduplicate(venues_from_array \o venues_from_steps, {})
       IN [raised |-> FALSE, all_venue_names |-> all_venue_names,
           adventure_locations |->
             IF all_venue_names = <<>> THEN <<>>
             ELSE MatchVenuesToLocations(all_venue_names, locs)]

\* a round that leaves the adventure as it was
Left(adventure, branch) ==
  [adventure |-> adventure, branch |-> branch, called |-> FALSE,
   optimized_locations |-> None]

\* the time of the i-th stop, counted from 0: two hours per stop from 9 AM
TimeLabel(i) ==
  LET hour == 9 + (i * 2)
      display_hour == IF hour % 12 # 0 THEN hour % 12 ELSE 12
  IN ToString(display_hour) \o ":00 " \o (IF hour >= 12 THEN "PM" ELSE "AM")

\* the inner loop over the locations: the index of the first location whose
\* lowered name is in the lowered activity, 0 if there is none
FirstNamed(step, optimized_locations) ==
  IF \E j \in 1..Len(optimized_locations) :
       IsSubstring(Lower(optimized_locations[j].name), Lower(step.activity))
  THEN CHOOSE j \in 1..Len(optimized_locations) :
         /\ IsSubstring(Lower(optimized_locations[j].name), Lower(step.activity))
         /\ \A h \in 1..(j - 1) :
              ~IsSubstring(Lower(optimized_locations[h].name), Lower(step.activity))
  ELSE 0

\* step_map.get(name): the index of the last step stored under the name,
\* 0 if there is none
StepMap(steps, optimized_locations, name) ==
  LET stored == { k \in 1..Len(steps) :
                    /\ FirstNamed(steps[k], optimized_locations) # 0
                    /\ optimized_locations[FirstNamed(steps[k], optimized_locations)].name
                         = name }
  IN IF stored = {} THEN 0 ELSE CHOOSE k \in stored : \A h \in stored : h <= k

\* the last position of the location of position i in the list: the step
\* found for a name is one dict, appended and given its time again at every
\* position of that name, so each of its entries shows the last time set
LastPosition(optimized_locations, i) ==
  CHOOSE j \in i..Len(optimized_locations) :
    /\ optimized_locations[j].name = optimized_locations[i].name
    /\ \A h \in (j + 1)..Len(optimized_locations) :
         optimized_locations[h].name # optimized_locations[i].name

\* the second loop from its i-th location on: the steps found, with new times
RECURSIVE Rebuild(_, _, _)
Rebuild(steps, optimized_locations, i) ==
  IF i > Len(optimized_locations) THEN <<>>
  ELSE LET k == StepMap(steps, optimized_locations, optimized_locations[i].name)
       IN (IF k = 0 THEN <<>>
           ELSE <<[steps[k] EXCEPT
                     !.time = TimeLabel(LastPosition(optimized_locations, i) - 1)]>>)
          \o Rebuild(steps, optimized_locations, i + 1)

\* _reorder_steps_by_locations
ReorderStepsByLocations(steps, optimized_locations) ==
  IF steps = <<>> \/ optimized_locations = <<>> THEN steps
  ELSE IF Rebuild(steps, optimized_locations, 1) # <<>>
  THEN Rebuild(steps, optimized_locations, 1)
  ELSE steps

\* lines 396-414: the optimized route is adopted
OptimizedRound(adventure, pre, g) ==
  [adventure |->
     [adventure EXCEPT
        !.map_url = g.optimized_url,
        !.steps = ReorderStepsByLocations(adventure.steps, g.optimized_locations),
        !.routing_info =
          Some([routing_available |-> TRUE, optimized |-> TRUE,
                optimization_method |-> "google_maps_directions_api",
                recommended_mode |-> "walking",
                total_stops |-> Len(g.optimized_locations),
                matched_stops |-> Len(g.optimized_locations),
                requested_stops |-> Len(pre.all_venue_names),
                route_details |-> g.route_details])],
   branch |-> "optimized", called |-> g.called,
   optimized_locations |-> Some(g.optimized_locations)]

\* lines 431-439 and 452-459: the route of the routing agent is adopted, if any
AgentRound(adventure, routing_result, routing_info, branch, called) ==
  [adventure |->
     IF DictGet(routing_result, "primary_route_url", None) # None
     THEN [adventure EXCEPT !.map_url = routing_result.primary_route_url,
                            !.routing_info = Some(routing_info)]
     ELSE adventure,
   branch |-> branch, called |-> called, optimized_locations |-> None]

FallbackInfo(routing_result, adventure_locations) ==
  [routing_available |-> TRUE, optimized |-> FALSE,
   optimization_method |-> "basic_fallback",
   recommended_mode |-> DictGet(routing_result, "recommended_travel_mode", "walking"),
   total_stops |-> Len(adventure_locations)]

FallbackRound(adventure, pre, routing_result, called) ==
  AgentRound(adventure, routing_result,
             FallbackInfo(routing_result, pre.adventure_locations), "fallback", called)

SingleInfo ==
  [routing_available |-> TRUE, optimized |-> FALSE,
   optimization_method |-> "single_destination", total_stops |-> 1]

\* a round that adopts whatever the optimizer returned
AlwaysOptimized(adventure, pre, user_addr, g) == OptimizedRound(adventure, pre, g)

\* lines 396-439: after _get_optimized_route_from_google returned g
AfterOptimization(adventure, pre, user_addr, g) ==
  IF g.optimized_url # None /\ g.optimized_locations # <<>>
  THEN OptimizedRound(adventure, pre, g)
  ELSE FallbackRound(adventure, pre,
                     GenerateIntelligentRoute(pre.adventure_locations, user_addr), g.called)

\* the rest of the round: the adventure as the round leaves it, and what was done
AfterMatching(adventure, pre, user_addr, target, enabled, reply) ==
  IF pre.raised THEN Left(adventure, "raised")
  ELSE IF pre.all_venue_names = <<>> THEN Left(adventure, "no_venues")
  ELSE IF Len(pre.adventure_locations) > 1
  THEN AfterOptimization(adventure, pre, user_addr,
         GetOptimizedRouteFromGoogle(IF user_addr # None THEN user_addr ELSE target,
                                     pre.adventure_locations, "walking", enabled, reply))
  ELSE IF pre.adventure_locations # <<>>
  THEN AgentRound(adventure, GenerateIntelligentRoute(pre.adventure_locations, user_addr),
                  SingleInfo, "single", FALSE)
  ELSE Left(adventure, "unmatched")

(***************************************************************************)
(* Inputs of the routing stage                                             *)
(***************************************************************************)
MaxAdventures == 2

NameMFA == <<"M","F","A">>
NameCafe == <<"C","a","f","e">>
NamePark == <<"P","a","r","k">>
NameZoo == <<"Z","o","o">>
NameJoes == <<"J","o","e","'","s">>
NameBar == <<"B","a","r">>

LocMuseum == [name |-> NameMFA, address |-> <<"4","6","5"," ","H","u","n","t","i","n","g","t","o","n"," ","A","v","e">>]
LocCafe == [name |-> NameCafe, address |-> <<"C","a","f","e",","," ","B","o","s","t","o","n">>]
LocPark == [name |-> NamePark, address |-> <<"P","a","r","k",","," ","S","a","l","e","m">>]
LocZoo == [name |-> NameZoo, address |-> <<"Z","o","o",","," ","C","h","i","c","a","g","o">>]
LocJoes == [name |-> NameJoes, address |-> <<"J","o","e","'","s",","," ","C","h","i","c","a","g","o">>]

LocationLists == { <<LocMuseum, LocCafe, LocPark>>, <<LocMuseum, LocZoo, LocJoes>>,
                   <<LocZoo, LocJoes>> }

UserAddresses == { None, <<"1"," ","M","a","i","n"," ","S","t">> }
TargetLocations == { None, Boston }

\* the steps the creator writes, one per venue it names in them
StepsOf(mentions) ==
  [i \in 1..Len(mentions) |->
     [time |-> "10:00 AM", activity |-> <<"G", "o", " ", "a", "t", " ">> \o mentions[i]]]

\* an adventure whose steps name the venues of its venues_used list
Adventure(title, mentions) ==
  [title |-> title, venues_used |-> mentions,
   steps |-> IF mentions = None THEN <<>> ELSE StepsOf(mentions[1]),
   map_url |-> None, routing_info |-> None]

AdventurePool ==
  { Adventure("null venues", None),
    Adventure("no venues", Some(<<>>)),
    [Adventure("unmatched", Some(<<NameBar>>)) EXCEPT
       !.steps = StepsOf(<<NameBar, <<"b","a","r",".">>, <<"P","u","b","!">>>>)
                 \o <<[time |-> "1:00 PM", activity |-> <<"E","x","p","l","o","r","e"," ","t","h","e"," ","p","u","b">>]>>],
    Adventure("one", Some(<<NameMFA, <<" ","m","f","a">>>>)),
    [Adventure("three", Some(<<NameMFA, NameCafe, NameZoo, NamePark, NameJoes>>)) EXCEPT
       !.steps[1].activity = <<"G","o"," ","a","t"," ","M","u","s","e","u","m">>] }

RoutingStart ==
  /\ route_adventures \in SeqsUpTo(AdventurePool, 0, MaxAdventures)
  /\ route_input = route_adventures
  /\ all_enhanced_locations \in LocationLists
  /\ route_user_address \in UserAddresses
  /\ route_target_location \in TargetLocations
  /\ route_optimization_enabled \in BOOLEAN
  /\ route_idx = 0
  /\ route_pending = None
  /\ route_log = <<>>

\* the reply of a round that does not ask the provider
NoReply == [kind |-> "none"]

\* a round of the loop over the adventures, up to the await of the provider
MatchAdventure ==
  /\ route_pending = None
  /\ route_idx < Len(route_adventures)
  /\ route_pending' = Some(BeforeOptimization(route_adventures[route_idx + 1],
                                              all_enhanced_locations))
  /\ UNCHANGED <<route_adventures, route_input, all_enhanced_locations, route_user_address,
                 route_target_location, route_optimization_enabled, route_idx, route_log,
                 cacheVars, matchVars, enrichVars, flowVars, routeVars, reqVars, sseVars>>

\* the provider is asked only when more than one stop was matched and
\* optimization is enabled; otherwise no reply is looked at
RepliesAwaited(pre) ==
  IF ~pre.raised /\ Len(pre.adventure_locations) > 1 /\ route_optimization_enabled
  THEN DirectionsReplies(Len(pre.adventure_locations))
  ELSE {NoReply}

LogEntry(pre, round, reply) ==
  [raised |-> pre.raised,
   all_venue_names |-> pre.all_venue_names,
   adventure_locations |-> pre.adventure_locations,
   branch |-> round.branch,
   called |-> round.called,
   reply |-> IF round.called THEN Some(reply) ELSE None,
   optimized_locations |-> round.optimized_locations]

\* the rest of the round, for the replies the provider may give
RouteWith(replies) ==
  /\ route_pending # None
  /\ \E reply \in replies :
       \E round \in {AfterMatching(route_adventures[route_idx + 1], route_pending[1],
                                   route_user_address, route_target_location,
                                   route_optimization_enabled, reply)} :
         /\ route_adventures' = [route_adventures EXCEPT ![route_idx + 1] = round.adventure]
         /\ route_log' = Append(route_log, LogEntry(route_pending[1], round, reply))
  /\ route_pending' = None
  /\ route_idx' = route_idx + 1
  /\ UNCHANGED <<route_input, all_enhanced_locations, route_user_address,
                 route_target_location, route_optimization_enabled,
                 cacheVars, matchVars, enrichVars, flowVars, routeVars, reqVars, sseVars>>

RouteAdventure == RouteWith(RepliesAwaited(route_pending[1]))

RoutingNext == MatchAdventure \/ RouteAdventure

RoutingInit ==
  RoutingStart /\ CacheStart /\ MatchIdle /\ EnrichIdle /\ FlowIdle /\ RouteIdle /\ ReqIdle /\ SseIdle

SpecRouting == RoutingInit /\ [][RoutingNext]_vars

(***************************************************************************)
(* Claims about the routing stage                                          *)
(***************************************************************************)
Elements(s) == { s[i] : i \in 1..Len(s) }

\* the stops a route URL visits after its origin, in order
Visited(url) == url.waypoints \o <<url.destination>>

QuotedStops(stops) ==
  [i \in 1..Len(stops) |-> Quote(CleanAddressForRouting(stops[i].address))]

\* C16: when the optimized route is adopted for n >= 2 matched stops, the
\* adopted stop list is a permutation of the matched stops (none added,
\* dropped or duplicated) and ends with the last matched stop, whatever
\* waypoint order the provider returned.
C16_OptimizedStopsArePermutation ==
  \A k \in 1..Len(route_log) :
    route_log[k].branch = "optimized" =>
      LET stops == route_log[k].adventure_locations
          adopted == route_log[k].optimized_locations[1]
      IN /\ Len(adopted) = Len(stops)
         /\ Elements(adopted) = Elements(stops)
         /\ adopted[Len(adopted)] = stops[Len(stops)]

\* C17: with two or more matched stops and a provider that is not
\* configured, raises or returns no result, the adventure gets a map_url
\* that visits the matched stops in their matched order, tagged
\* basic_fallback and not optimized.
C17_FallbackRoutesMatchedStops ==
  \A k \in 1..Len(route_log) :
    LET stops == route_log[k].adventure_locations
        adventure == route_adventures[k]
        unavailable == \/ ~route_optimization_enabled
                       \/ /\ route_log[k].reply # None
                          /\ route_log[k].reply[1].kind \in {"raise", "none"}
    IN (Len(stops) >= 2 /\ unavailable) =>
         /\ adventure.map_url # None
         /\ adventure.routing_info # None
         /\ adventure.routing_info[1].optimization_method = "basic_fallback"
         /\ adventure.routing_info[1].optimized = FALSE
         /\ \/ Visited(adventure.map_url[1]) = QuotedStops(stops)
            \/ <<adventure.map_url[1].origin>> \o Visited(adventure.map_url[1])
                 = QuotedStops(stops)

\* C18: with exactly one matched stop the adventure gets a direct route from
\* the user address, else the target location, to that stop, tagged
\* single_destination with total_stops 1, and the provider is not called.
C18_SingleStopGetsDirectRoute ==
  \A k \in 1..Len(route_log) :
    LET stops == route_log[k].adventure_locations
        adventure == route_adventures[k]
        trip_origin == IF route_user_address # None
                       THEN CleanAddressForRouting(route_user_address)
                       ELSE route_target_location
    IN Len(stops) = 1 =>
         /\ ~route_log[k].called
         /\ adventure.map_url # None
         /\ adventure.map_url[1].origin = Quote(trip_origin)
         /\ adventure.map_url[1].waypoints = <<>>
         /\ adventure.map_url[1].destination = QuotedStops(stops)[1]
         /\ adventure.routing_info # None
         /\ adventure.routing_info[1].optimization_method = "single_destination"
         /\ adventure.routing_info[1].total_stops = 1

\* the mentions of an adventure: its venues_used, then those of its steps
Mentions(adventure) ==
  adventure.venues_used[1] \o ExtractVenuesFromSteps(adventure.steps)

\* no mention of the adventure is accepted for any of the locations
NoMentionMatches(adventure, locs) ==
  \A i \in 1..Len(Mentions(adventure)) :
    ~Accepted(ScanLocations(LowerStrip(Mentions(adventure)[i]),
                            [j \in 1..Len(locs) |-> locs[j].name], {}, 1, NoBest))

\* C19: an adventure without mentions, or none of whose mentions matches a
\* location, or whose round raised, is left as it was given, without map_url
\* and routing_info, and the loop goes on to the next adventure; a round
\* changes nothing but the map_url, routing_info and steps of its own
\* adventure, so the list keeps its length and order.
C19_UnroutableAdventuresAreKept ==
  /\ Len(route_log) = route_idx
  /\ Len(route_adventures) = Len(route_input)
  /\ \A k \in 1..Len(route_adventures) :
       /\ [route_adventures[k] EXCEPT !.map_url = None, !.routing_info = None,
                                       !.steps = route_input[k].steps]
            = route_input[k]
       /\ k > route_idx => route_adventures[k] = route_input[k]
       /\ (k <= route_idx /\ (\/ route_input[k].venues_used = None
                              \/ Mentions(route_input[k]) = <<>>
                              \/ NoMentionMatches(route_input[k], all_enhanced_locations)))
            => /\ route_adventures[k] = route_input[k]
               /\ route_adventures[k].map_url = None
               /\ route_adventures[k].routing_info = None

\* an adventure whose mention matches nothing was passed over and the next
\* one was routed
C19_Witness ==
  /\ route_idx = Len(route_adventures)
  /\ \E k \in 1..(Len(route_log) - 1) :
       /\ route_log[k].branch = "unmatched"
       /\ route_adventures[k + 1].map_url # None

(***************************************************************************)
(* ResearchCache under concurrent callers                                  *)
(*                                                                         *)
(* get and set are plain methods without an await and every caller, the    *)
(* research tasks of one gather and the requests of the API alike, is a    *)
(* coroutine of the one event loop, so the calls of concurrent callers     *)
(* interleave as whole calls: the behaviours of SpecCache.                 *)
(***************************************************************************)
\* C20: whatever the order in which concurrent callers' get and set calls
\* run, the cache holds at most max_size entries and at most one entry per
\* key, a get returns either a miss or a payload that a set stored under
\* that key, and no call raises: the min() of set never sees an empty dict.
C20_CacheSafeUnderInterleaving ==
  /\ Len(cache) <= MaxSize
  /\ \A i, j \in 1..Len(cache) : i # j => cache[i].key # cache[j].key
  /\ lastOp.op = "get" =>
       IF lastOp.hit
       THEN \E g \in live : /\ g.key = MakeKey(lastOp.venue_name, lastOp.location)
                            /\ lastOp.value = Some(g.data)
       ELSE lastOp.value = None
  /\ AtCapacity(cache) => cache # <<>>

\* a get hit an entry of a full cache
C20_Witness ==
  /\ lastOp.op = "get"
  /\ lastOp.hit
  /\ Len(cache) = MaxSize

(***************************************************************************)
(* Claims about progress updates, fallbacks and the outcome of a run       *)
(***************************************************************************)
\* the statuses that close a stage
ClosingStatuses == {"complete", "failed", "error", "clarification_needed"}

\* the k-th node run has a starting update followed by a closing update
Wrapped(k) ==
  \E i, j \in 1..Len(emitted) :
    /\ i < j
    /\ emitted[i] = [step |-> StepName(invoked[k]), status |-> "in_progress"]
    /\ emitted[j].step = StepName(invoked[k])
    /\ emitted[j].status \in ClosingStatuses
    /\ \A m \in 1..Len(emitted) :
         (k < Len(invoked) /\ emitted[m].step = StepName(invoked[k + 1])) => j < m

\* C21: every stage that has run emitted an in_progress update before its
\* work and a closing update (complete or failed) after it, before the first
\* update of the next stage, also when its collaborator failed, raised or
\* returned no data.
C21_EveryStageWrappedByUpdates ==
  \A k \in 1..Len(invoked) : Wrapped(k)

\* C22: whatever the progress callback does (no callback, a callback that
\* returns, one that raises on every update), the run is the one a callback
\* that never fails gives: the same nodes run on the same state, the same
\* adventures and metadata are returned, and no exception of the callback
\* reaches the caller.
C22_CallbackCannotChangeRun ==
  /\ callback_error # "escaped"
  /\ reference_run = [state |-> state, node |-> node, returned |-> returned]
  /\ node = "returned" => returned # None

\* a run of all eight stages has returned adventures although its callback
\* raised on every update
C22_Witness ==
  /\ node = "returned"
  /\ callback_error = "swallowed"
  /\ invoked = StageOrder
  /\ Len(emitted) >= 10
  /\ returned[1].adventures # <<>>

\* C23: when the location parser failed or raised, target_location is the
\* user's address if one was given and "Boston, MA" otherwise; once the
\* location stage has run target_location is never null, and the stages after
\* it still run.
C23_LocationFallsBackToDefault ==
  Len(invoked) >= 1 =>
    /\ state.target_location # None
    /\ "parse_location" \in failed_stages =>
         state.target_location =
           IF state.user_address # None THEN state.user_address ELSE Some("Boston, MA")
    /\ (node \in {"END", "returned"} /\ ~ainvoke_error) => Len(invoked) >= 3

\* the key under which a node tracks its duration
TimingKey(n) == StepName(n)

\* C24: when a run has ended, the timing map has an entry for every stage
\* that ran, including the stages that returned early (no personalization
\* data, clarification needed, no researched venues) and the stages whose
\* collaborator failed.
C24_EveryStageTimed ==
  node = "returned" => \A k \in 1..Len(invoked) : TimingKey(invoked[k]) \in timing_data

\* a run in which every call of a collaborator returns or raises: no node
\* waits forever
SpecWorkflowLive == SpecWorkflow /\ WF_vars(WorkflowNext)

\* the three outcomes of generate_adventures
IsDone(r) ==
  /\ "error" \notin DOMAIN r.metadata
  /\ "workflow_success" \in DOMAIN r.metadata
  /\ r.metadata.workflow_success
  /\ r.metadata.total_adventures = Len(r.adventures)

IsNeedsClarification(r) ==
  /\ r.adventures = <<>>
  /\ DOMAIN r.metadata = {"error"}
  /\ "type" \in DOMAIN r.metadata.error
  /\ r.metadata.error.type = "clarification_needed"

IsFailed(r) ==
  /\ r.adventures = <<>>
  /\ DOMAIN r.metadata = {"error"}
  /\ "type" \notin DOMAIN r.metadata.error

OutcomesOf(r) ==
  {k \in {"done", "needs_clarification", "failed"} :
     \/ k = "done" /\ IsDone(r)
     \/ k = "needs_clarification" /\ IsNeedsClarification(r)
     \/ k = "failed" /\ IsFailed(r)}

Terminated ==
  node = "returned" =>
    /\ returned # None
    /\ Cardinality(OutcomesOf(returned[1])) = 1
    /\ ainvoke_error <=> IsFailed(returned[1])
    /\ state.error = None \/ IsClarification(state.error)

\* C25: when every collaborator call returns or raises, generate_adventures
\* terminates, raises nothing, and ends in exactly one of the outcomes done
\* (adventures and metadata with workflow_success), needs-clarification (no
\* adventures and a clarification error) and failed (no adventures and an
\* error); an exception of the graph run is reported in the result of that
\* request, as the failed outcome, and nowhere else.
C25_TerminatesInOneOutcome ==
  /\ []Terminated
  /\ <>(node = "returned")

\* a run that workflow.ainvoke ended with an exception has returned
C25_Witness ==
  /\ node = "returned"
  /\ ainvoke_error
  /\ Len(invoked) >= 4
  /\ IsFailed(returned[1])

\* the intent stage ended with no parsed preferences and no clarification
\* error in the state
IntentLeftNothing ==
  /\ Len(invoked) >= 3
  /\ state.parsed_preferences = None
  /\ ~IsClarification(state.error)

\* C26: when the intent stage ends with no parsed preferences and no explicit
\* clarification signal (the parser call raised inside the stage), the run
\* stops before scout_venues and the caller gets the clarification outcome:
\* no adventures and an error of type clarification_needed with a message and
\* suggestions.
C26_EmptyIntentAsksForClarification ==
  IntentLeftNothing =>
    /\ node \in {"END", "returned"}
    /\ invoked = <<"parse_location", "get_personalization", "parse_intent">>
    /\ (node = "returned" /\ ~ainvoke_error) =>
         /\ returned[1].adventures = <<>>
         /\ IsNeedsClarification(returned[1])
         /\ returned[1].metadata.error.message # None
         /\ returned[1].metadata.error.suggestions # <<>>

(***************************************************************************)
(* Further claims about the cache                                          *)
(***************************************************************************)
\* C27: a call of set removes an entry only when it inserts a key that is not
\* yet in the cache while the cache holds max_size entries; a set that
\* overwrites a key already in the cache removes no other entry.
C27_EvictionOnlyForNewKeyAtCapacity ==
  [][IsCall("set") =>
       ((Keys(cache) \ Keys(cache')) # {} =>
          /\ Len(cache) >= MaxSize
          /\ MakeKey(lastOp'.venue_name, lastOp'.location) \notin Keys(cache))]_vars

\* the counters after a call of get: a lookup of a live key counts as a hit
\* and nothing else, any other lookup as a miss and nothing else
GetCounts ==
  IsCall("get") =>
    LET key == MakeKey(lastOp'.venue_name, lastOp'.location)
        is_live == \E i \in 1..Len(cache) : cache[i].key = key /\ ~(now > cache[i].expires_at)
    IN IF is_live
       THEN hits' = hits + 1 /\ misses' = misses /\ lastOp'.hit
       ELSE hits' = hits /\ misses' = misses + 1 /\ ~lastOp'.hit

\* set and cleanup_expired leave both counters alone, clear resets them
OtherCallsCount ==
  /\ (IsCall("set") \/ IsCall("cleanup")) => (hits' = hits /\ misses' = misses)
  /\ IsCall("clear") => (hits' = 0 /\ misses' = 0)

\* C28: hits + misses is the number of get calls made since construction or
\* the last clear: a lookup of an absent or expired key adds one to misses
\* only, a lookup of a live key adds one to hits only, set and
\* cleanup_expired change neither counter, and get_stats reports a
\* time_saved_estimate of 2 seconds times hits.
C28_CountersCountGets ==
  /\ [](hits + misses = gets)
  /\ [](GetStats(cache, hits, misses).time_saved_estimate = ToString(2 * hits) \o "s")
  /\ [](GetStats(cache, hits, misses).hits = hits)
  /\ [][GetCounts /\ OtherCallsCount]_vars

\* a miss, then a set, then a hit on the entry the set stored
C28_Witness ==
  /\ hits = 1
  /\ misses = 1
  /\ gets = 2
  /\ lastOp.op = "get"
  /\ lastOp.hit
  /\ nops = 3

\* the names of a list of venues or locations, in order
Names(list) == [i \in 1..Len(list) |-> list[i].name]

\* the step keeps what the earlier stages wrote to the state
KeepsOutputs ==
  /\ state.target_location # None => state'.target_location = state.target_location
  /\ state.parsed_preferences # None => state'.parsed_preferences = state.parsed_preferences
  /\ state.scouted_venues # <<>> => state'.scouted_venues = state.scouted_venues
  /\ state.researched_venues # <<>> =>
       /\ Names(state'.researched_venues) = Names(state.researched_venues)
       /\ \A i \in 1..Len(state.researched_venues) :
            DOMAIN state.researched_venues[i] \subseteq DOMAIN state'.researched_venues[i]
  /\ state.enhanced_locations # <<>> => state'.enhanced_locations = state.enhanced_locations

\* the step is the run of node n with its collaborator answering
Succeeds(n) == invoked' = Append(invoked, n) /\ failed_stages' = failed_stages

\* C29: once a stage has written its output field (target_location,
\* parsed_preferences, scouted_venues, researched_venues, enhanced_locations)
\* no later stage clears or shrinks it: summarize_research keeps the number
\* and order of the researched venues and adds a summary to each, and
\* enhance_routing makes exactly one location per researched venue, in the
\* same order.
C29_OutputsOnlyGrow ==
  [][(state # None /\ state' # None) =>
       /\ KeepsOutputs
       /\ (Succeeds("summarize_research") /\ state.researched_venues # <<>>) =>
            \A i \in 1..Len(state'.researched_venues) :
              /\ "research_summary" \notin DOMAIN state.researched_venues[i]
              /\ "research_summary" \in DOMAIN state'.researched_venues[i]
       /\ Succeeds("enhance_routing") =>
            Names(state'.enhanced_locations) = Names(state.researched_venues)]_vars

\* two venues were researched, the second got the fallback summary, and the
\* routing stage has made a location of each
C29_Witness ==
  /\ node = "create_adventures"
  /\ Len(state.researched_venues) = 2
  /\ state.metadata.research_summarized
  /\ state.researched_venues[1].research_summary = "summary"
  /\ state.researched_venues[2].research_summary = "fallback"
  /\ Names(state.enhanced_locations) = <<"mfa", "zoo">>
  /\ state.target_location = None

(***************************************************************************)
(* Further claims about the routing stage                                  *)
(***************************************************************************)
Activities(steps) == [i \in 1..Len(steps) |-> steps[i].activity]

Count(list, x) == Cardinality({ i \in 1..Len(list) : list[i] = x })

\* p holds the elements of q, each as often as q does
IsPermutation(p, q) ==
  /\ Len(p) = Len(q)
  /\ \A i \in 1..Len(q) : Count(p, q[i]) = Count(q, q[i])

\* the steps follow the order of the stops they name
FollowsStops(steps, optimized_locations) ==
  \A i, j \in 1..Len(steps) :
    i < j => FirstNamed(steps[i], optimized_locations)
               <= FirstNamed(steps[j], optimized_locations)

\* C30: after a successful optimization the steps of the adventure are a
\* permutation of its original steps, each kept exactly once, none dropped or
\* duplicated, in the order of the optimized stops.
C30_StepsArePermutation ==
  \A k \in 1..Len(route_log) :
    route_log[k].branch = "optimized" =>
      /\ IsPermutation(Activities(route_adventures[k].steps), Activities(route_input[k].steps))
      /\ FollowsStops(route_adventures[k].steps, route_log[k].optimized_locations[1])

(***************************************************************************)
(* Claims about concurrent enrichment, the endpoints and the routing stage *)
(***************************************************************************)
\* the tasks of the batch that called the provider for the key of task i
ProviderCallsFor(i) ==
  { j \in DOMAIN research_tasks :
      /\ MakeKey(research_tasks[j].venue.name, in_location)
           = MakeKey(research_tasks[i].venue.name, in_location)
      /\ research_tasks[j].search # "cached" }

\* C31: across the enrichment tasks of one batch that run concurrently with
\* the same normalized (name, location) key and a cold cache, the provider
\* is called only once for that key and the outputs of the tasks carry the
\* same payload.
C31_ConcurrentSameKeyEnrichedOnce ==
  response # None =>
    \A i, j \in DOMAIN research_tasks :
      (MakeKey(research_tasks[i].venue.name, in_location)
         = MakeKey(research_tasks[j].venue.name, in_location))
      => /\ Cardinality(ProviderCallsFor(i)) <= 1
         /\ research_tasks[i].result = research_tasks[j].result

(***************************************************************************)
(* The streaming endpoint: create_adventures_stream / generate_sse_stream   *)
(***************************************************************************)
MaxUpdates == 3   \* most updates the workflow emits in one streamed run

\* how generate_adventures_with_progress can end, as the endpoint tells them apart
GenerationResults == {"clarification", "empty", "adventures", "raised"}

\* generation_task.done()
Done == generation_task \in GenerationResults

\* f"data: {json.dumps(update)}\n\n" for a progress update
DataMessage(update) == [update |-> update]

\* the last data message of each branch after the loop
FinalResponse(result, log) ==
  IF result = "adventures"
  THEN [done |-> TRUE, success |-> TRUE, progress_log |-> log]
  ELSE [done |-> TRUE, success |-> FALSE, progress_log |-> log]

\* the request arrives: the queue and the log are created and the generation
\* is started as a background task
StreamRequest ==
  /\ stream_pc = "idle"
  /\ progress_queue' = <<>>
  /\ progress_log' = <<>>
  /\ put_tasks' = <<>>
  /\ generation_task' = "running"
  /\ stream_pc' = "loop"
  /\ UNCHANGED <<sse_stream, cacheVars, matchVars, enrichVars, flowVars, routeVars,
                 reqVars, advVars>>

\* the workflow hands its next update to _emit_progress, which calls
\* progress_callback: the update is logged and a task is created to put it
\* in the queue
StreamEmitProgress ==
  /\ generation_task = "running"
  /\ Len(progress_log) < MaxUpdates
  /\ \E update \in {Len(progress_log) + 1} :
       /\ progress_log' = Append(progress_log, update)
       /\ put_tasks' = Append(put_tasks, update)
  /\ UNCHANGED <<generation_task, progress_queue, sse_stream, stream_pc, cacheVars,
                 matchVars, enrichVars, flowVars, routeVars, reqVars, advVars>>

\* the event loop runs the oldest put task (tasks become ready in the order
\* of their creation)
PutTaskRuns ==
  /\ put_tasks # <<>>
  /\ progress_queue' = Append(progress_queue, Head(put_tasks))
  /\ put_tasks' = Tail(put_tasks)
  /\ UNCHANGED <<generation_task, progress_log, sse_stream, stream_pc, cacheVars,
                 matchVars, enrichVars, flowVars, routeVars, reqVars, advVars>>

\* generate_adventures_with_progress returns or raises
GenerationEnds(result) ==
  /\ generation_task = "running"
  /\ generation_task' = result
  /\ UNCHANGED <<progress_log, put_tasks, progress_queue, sse_stream, stream_pc,
                 cacheVars, matchVars, enrichVars, flowVars, routeVars, reqVars, advVars>>

\* while not generation_task.done()
LoopTest ==
  /\ stream_pc = "loop"
  /\ stream_pc' = IF Done THEN "result" ELSE "get"
  /\ UNCHANGED <<generation_task, progress_log, put_tasks, progress_queue, sse_stream,
                 cacheVars, matchVars, enrichVars, flowVars, routeVars, reqVars, advVars>>

\* wait_for(progress_queue.get(), timeout=0.5) returns an update, which is
\* yielded as a data message; the generator resumes when the client took it
QueueGet ==
  /\ stream_pc = "get"
  /\ progress_queue # <<>>
  /\ sse_stream' = Append(sse_stream, DataMessage(Head(progress_queue)))
  /\ progress_queue' = Tail(progress_queue)
  /\ stream_pc' = "loop"
  /\ UNCHANGED <<generation_task, progress_log, put_tasks, cacheVars, matchVars,
                 enrichVars, flowVars, routeVars, reqVars, advVars>>

\* asyncio.TimeoutError: nothing arrived in half a second, a heartbeat
\* comment is yielded
Heartbeat ==
  /\ stream_pc = "get"
  /\ progress_queue = <<>>
  /\ put_tasks = <<>>
  /\ stream_pc' = "loop"
  /\ UNCHANGED <<generation_task, progress_log, put_tasks, progress_queue, sse_stream,
                 cacheVars, matchVars, enrichVars, flowVars, routeVars, reqVars, advVars>>

\* after the loop: await generation_task, then the one final message of the
\* branch taken (the except branch when the task raised)
FinalMessage ==
  /\ stream_pc = "result"
  /\ sse_stream' = Append(sse_stream, FinalResponse(generation_task, progress_log))
  /\ stream_pc' = "closed"
  /\ UNCHANGED <<generation_task, progress_log, put_tasks, progress_queue, cacheVars,
                 matchVars, enrichVars, flowVars, routeVars, reqVars, advVars>>

StreamNext ==
  \/ StreamRequest
  \/ StreamEmitProgress
  \/ PutTaskRuns
  \/ \E result \in GenerationResults : GenerationEnds(result)
  \/ LoopTest
  \/ QueueGet
  \/ Heartbeat
  \/ FinalMessage

StreamInit ==
  SseIdle /\ CacheStart /\ MatchIdle /\ EnrichIdle /\ FlowIdle /\ RouteIdle /\ ReqIdle /\ AdvIdle

SpecStream == StreamInit /\ [][StreamNext]_vars

IsDoneMessage(m) == "done" \in DOMAIN m

\* the updates of the progress messages sent, in the order sent
UpdatesSent ==
  LET data == SelectSeq(sse_stream, LAMBDA m : ~IsDoneMessage(m))
  IN [k \in 1..Len(data) |-> data[k].update]

\* C32: in the streaming endpoint every progress update emitted by the
\* workflow is sent to the client as a data message, in emission order,
\* before the final message with done = true; exactly one done message is
\* sent and it is the last data message of the stream.
C32_EveryUpdateStreamedBeforeDone ==
  stream_pc = "closed" =>
    /\ UpdatesSent = progress_log
    /\ sse_stream # <<>>
    /\ IsDoneMessage(sse_stream[Len(sse_stream)])
    /\ Cardinality({ k \in DOMAIN sse_stream : IsDoneMessage(sse_stream[k]) }) = 1

(***************************************************************************)
(* The non-streaming endpoint: create_adventures                           *)
(***************************************************************************)
\* isinstance(error_data, dict) and error_data.get("type") == "clarification_needed";
\* the error of a failed run is a string
IsClarificationError(metadata) ==
  /\ "error" \in DOMAIN metadata
  /\ "type" \in DOMAIN metadata.error
  /\ metadata.error.type = "clarification_needed"

\* the response create_adventures builds from what generate_adventures returned
CreateAdventuresResponse(adventures, metadata) ==
  IF IsClarificationError(metadata)
  THEN LET error_data == metadata.error IN
       IF DictGet(error_data, "unrelated_query", FALSE)
       THEN [success |-> FALSE, adventures |-> <<>>,
             metadata |-> [clarification_needed |-> TRUE, unrelated_query |-> TRUE,
                           clarification_message |->
                             DictGet(error_data, "clarification_message", None),
                           suggestions |-> DictGet(error_data, "suggestions", <<>>)],
             message |-> "Query not related to adventure planning"]
       ELSE IF DictGet(error_data, "out_of_scope", FALSE)
       THEN [success |-> FALSE, adventures |-> <<>>,
             metadata |-> [clarification_needed |-> FALSE, out_of_scope |-> TRUE,
                           clarification_message |->
                             DictGet(error_data, "clarification_message", None),
                           suggestions |-> DictGet(error_data, "suggestions", <<>>)],
             message |-> "Request outside MiniQuest's scope"]
       ELSE [success |-> FALSE, adventures |-> <<>>,
             metadata |-> [clarification_needed |-> TRUE,
                           clarification_message |->
                             DictGet(error_data, "clarification_message", None),
                           suggestions |-> DictGet(error_data, "suggestions", <<>>)],
             message |-> "Clarification needed"]
  ELSE IF adventures = <<>> /\ "error" \in DOMAIN metadata
  THEN [status_code |-> 400]
  ELSE [success |-> TRUE, adventures |-> adventures,
        metadata |-> [workflow_success |-> TRUE, total_adventures |-> Len(adventures)],
        message |-> "Generated adventures"]

\* the run ended in the clarification the intent parser asked for
EndedInClarification ==
  /\ node = "returned"
  /\ returned # None
  /\ IsNeedsClarification(returned[1])
  /\ intent_result # None
  /\ IntentClarifies(intent_result[1])

\* C33: when the workflow ends in clarification, the response of the
\* non-streaming endpoint carries in metadata.clarification_message the
\* message text the intent parser produced, together with its suggestions,
\* with success = false and an empty adventure list.
C33_ClarificationMessageReachesResponse ==
  EndedInClarification =>
    \E r \in {CreateAdventuresResponse(returned[1].adventures, returned[1].metadata)} :
      /\ r.success = FALSE
      /\ r.adventures = <<>>
      /\ r.metadata.clarification_message = intent_result[1].data.clarification_message
      /\ r.metadata.suggestions = intent_result[1].data.suggestions

\* the positions of a list whose lowered, stripped form no earlier entry has
FirstOfItsKind(names) ==
  { i \in 1..Len(names) :
      \A h \in 1..(i - 1) : LowerStrip(names[h]) # LowerStrip(names[i]) }

\* the entries of a list at the given positions, in the order of the list
RECURSIVE Pick(_, _, _)
Pick(names, positions, i) ==
  IF i > Len(names) THEN <<>>
  ELSE (IF i \in positions THEN <<names[i]>> ELSE <<>>) \o Pick(names, positions, i + 1)

\* C34: the mention list used for routing is the venues_used list followed
\* by the venues extracted from the step texts, where an entry is dropped
\* when its lower-cased, trimmed form equals that of an earlier entry; the
\* first spelling and the relative order of the remaining mentions are kept.
C34_MentionsMergedFirstSpellingKept ==
  \A k \in 1..Len(route_log) :
    ~route_log[k].raised =>
      route_log[k].all_venue_names
        = Pick(Mentions(route_input[k]), FirstOfItsKind(Mentions(route_input[k])), 1)

\* a round whose mention list has an entry that only a step names, after a
\* step's respelling of a venues_used entry was dropped
C34_Witness ==
  \E k \in 1..Len(route_log) :
    /\ ~route_log[k].raised
    /\ route_input[k].venues_used = Some(<<NameBar>>)
    /\ route_log[k].all_venue_names = <<NameBar, <<"P","u","b">>>>
    /\ <<"b","a","r">> \in Elements(Mentions(route_input[k]))
    /\ <<"p","u","b">> \in Elements(Mentions(route_input[k]))

\* the optimization_method of the k-th adventure, None without routing_info
MethodOf(k) ==
  IF route_adventures[k].routing_info = None THEN None
  ELSE Some(route_adventures[k].routing_info[1].optimization_method)

\* the optimizer of round k had an origin, asked the provider and got a
\* route from it
OptimizerReturnedRoute(k) ==
  /\ route_user_address # None \/ route_target_location # None
  /\ route_log[k].called
  /\ route_log[k].reply # None
  /\ route_log[k].reply[1].kind = "route"

MaxScouted == 10   \* most venues the scout hands to the research stage

\* n scouted venues whose names have no letter in common
Scouted(n) == [i \in 1..n |-> [name |-> <<LowerChars[i], LowerChars[i], LowerChars[i]>>]]

\* _convert_to_enhanced_locations for venues without address, address_hint
\* and neighborhood, on names as lists of characters
EnhancedLocations(researched_venues, city_name) ==
  [i \in 1..Len(researched_venues) |->
     [name |-> researched_venues[i].name,
      address |-> researched_venues[i].name \o <<",", " ">> \o city_name]]

\* the stages from research to creation: the research agent is asked for at
\* most 8 venues (or raises, which leaves no researched venue), every
\* researched venue becomes a location, and the creator writes an adventure
\* that names every scouted venue
PipelineStages(n, research, user_addr, enabled) ==
  /\ route_adventures = <<>>
  /\ venues = <<>>
  /\ venues' = Scouted(n)
  /\ max_venues' = ResearchMaxVenues
  /\ \E researched_venues \in
        {IF research = "ok" THEN SelectBalancedVenues(Scouted(n), ResearchMaxVenues)
         ELSE <<>>} :
       all_enhanced_locations' = EnhancedLocations(researched_venues, Boston)
  /\ route_adventures' =
       <<Adventure("all venues", Some([i \in 1..n |-> Scouted(n)[i].name]))>>
  /\ route_input' = route_adventures'
  /\ route_user_address' = user_addr
  /\ route_target_location' = Boston
  /\ route_optimization_enabled' = enabled
  /\ UNCHANGED <<route_idx, route_pending, route_log, phase, in_location, research_tasks,
                 overtook, response, past_calls, cacheVars, matchVars, flowVars,
                 routeVars, reqVars, sseVars>>

\* the answers of gmaps.directions looked at in a pipeline run: it raises, or
\* returns a route without waypoint_order, with the waypoints in the order
\* given or in the opposite order
PipelineReplies(pre) ==
  IF ~pre.raised /\ Len(pre.adventure_locations) > 1 /\ route_optimization_enabled
  THEN LET w == Len(pre.adventure_locations) - 1 IN
       { [kind |-> "raise"],
         [kind |-> "route", route |-> [legs |-> <<>>]],
         [kind |-> "route", route |-> [legs |-> <<>>, waypoint_order |-> [i \in 1..w |-> i - 1]]],
         [kind |-> "route", route |-> [legs |-> <<>>, waypoint_order |-> [i \in 1..w |-> w - i]]] }
  ELSE {NoReply}

PipelineRoute == RouteWith(PipelineReplies(route_pending[1]))

PipelineNext ==
  \/ \E n \in 0..MaxScouted, research \in {"ok", "raise"}, user_addr \in UserAddresses,
        enabled \in BOOLEAN : PipelineStages(n, research, user_addr, enabled)
  \/ MatchAdventure
  \/ PipelineRoute

PipelineInit ==
  AdvIdle /\ CacheStart /\ MatchIdle /\ EnrichIdle /\ FlowIdle /\ RouteIdle /\ ReqIdle /\ SseIdle

SpecPipeline == PipelineInit /\ [][PipelineNext]_vars

KeptIndex(steps, optimized_locations, i) ==
  Cardinality({ j \in 1..i :
                  StepMap(steps, optimized_locations, optimized_locations[j].name) # 0 })

\* the time of the later step is the label two hours after that of the earlier
TwoHoursApart(earlier, later) ==
  \E i \in 0..(ResearchMaxVenues - 2) :
    earlier.time = TimeLabel(i) /\ later.time = TimeLabel(i + 1)

\* the stop at position i has a step and it shows the label of hour 9 + 2i
StopLabelled(k, i) ==
  LET steps == route_input[k].steps
      optimized_locations == route_log[k].optimized_locations[1]
  IN StepMap(steps, optimized_locations, optimized_locations[i].name) # 0 =>
       route_adventures[k].steps[KeptIndex(steps, optimized_locations, i)].time
         = TimeLabel(i - 1)

\* the round adopted an optimized route and rebuilt the steps from it
StepsRebuilt(k) ==
  /\ route_log[k].branch = "optimized"
  /\ Rebuild(route_input[k].steps, route_log[k].optimized_locations[1], 1) # <<>>

\* C37: after a successful optimization the step of the stop at position i
\* (0 <= i <= 7) is labelled with the 12-hour rendering of hour 9 + 2i, so
\* consecutive steps of the itinerary are exactly 2 hours apart.
C37_StepsTwoHoursApart ==
  \A k \in 1..Len(route_log) :
    StepsRebuilt(k) =>
      /\ \A i \in 1..Len(route_log[k].optimized_locations[1]) : StopLabelled(k, i)
      /\ \A n \in 1..(Len(route_adventures[k].steps) - 1) :
           TwoHoursApart(route_adventures[k].steps[n], route_adventures[k].steps[n + 1])

\* every stop of every optimized round shows the label of its position
C37_EveryStopLabelled ==
  \A k \in 1..Len(route_log) :
    StepsRebuilt(k) =>
      \A i \in 1..Len(route_log[k].optimized_locations[1]) : StopLabelled(k, i)

\* the same, for the rounds whose optimized stops are all different
C37_DistinctStopsLabelled ==
  \A k \in 1..Len(route_log) :
    (/\ StepsRebuilt(k)
     /\ \A i, j \in 1..Len(route_log[k].optimized_locations[1]) :
          i # j => route_log[k].optimized_locations[1][i].name
                     # route_log[k].optimized_locations[1][j].name)
    => \A i \in 1..Len(route_log[k].optimized_locations[1]) : StopLabelled(k, i)

\* the same, for the consecutive steps of the rounds whose stops all have a step
C37_FullItineraryTwoHoursApart ==
  \A k \in 1..Len(route_log) :
    (/\ StepsRebuilt(k)
     /\ \A i, j \in 1..Len(route_log[k].optimized_locations[1]) :
          i # j => route_log[k].optimized_locations[1][i].name
                     # route_log[k].optimized_locations[1][j].name
     /\ \A i \in 1..Len(route_log[k].optimized_locations[1]) :
          StepMap(route_input[k].steps, route_log[k].optimized_locations[1],
                  route_log[k].optimized_locations[1][i].name) # 0)
    => \A n \in 1..(Len(route_adventures[k].steps) - 1) :
         TwoHoursApart(route_adventures[k].steps[n], route_adventures[k].steps[n + 1])

====
